---- MODULE Spec2Model ----
(***************************************************************************)
(* Combat resolution of the FE-like SRPG: CombatSystem (combat.py),        *)
(* EnhancedCombatSystem (combat_integration.py), the skill trigger engine  *)
(* (skills.py, unit.py) and the special-item effects (legendary_items.py). *)
(*                                                                         *)
(* Floats of the source are modelled as integer percentages (0.5 -> 50);   *)
(* int(x * f) is TruncPct(x, f), Python's truncation toward zero.          *)
(* Python lists of object references (active_skills) are sequences of      *)
(* indices into the owner's skill roster.                                  *)
(***************************************************************************)
EXTENDS Integers, Sequences, FiniteSets, TLC

\* ------------------------------------------------------------------ bounds
\* number of engine calls (perform_combat / perform_capture_attack) explored
MaxCalls == 2

\* ------------------------------------------------------------ arithmetic
Max(a, b) == IF a >= b THEN a ELSE b
Min(a, b) == IF a <= b THEN a ELSE b
Abs(a) == IF a >= 0 THEN a ELSE -a

\* int(x * pct/100): truncation toward zero
TruncPct(x, pct) ==
    IF x * pct >= 0 THEN (x * pct) \div 100 ELSE -((-(x * pct)) \div 100)

\* x // 5, x // 2 on non-negative stats
FloorDiv(x, k) == x \div k

Units == {1, 2}
Other(i) == 3 - i

\* ------------------------------------------------------------ constants.py
WEAPON_TRIANGLE_skewed(a, d) ==
    CASE a = "SWORD" /\ d = "AXE"   -> 1
      [] a = "SWORD" /\ d = "LANCE" -> -1
      [] a = "LANCE" /\ d = "SWORD" -> 1
      [] a = "LANCE" /\ d = "AXE"   -> -1
      [] a = "AXE"   /\ d = "LANCE" -> 1
      [] a = "AXE"   /\ d = "SWORD" -> 1
      [] OTHER -> 0
\* WEAPON_TRIANGLE[a][d]; 0 when a is not a key or d is not a key of its row
WEAPON_TRIANGLE(a, d) ==
    CASE a = "SWORD" /\ d = "AXE"   -> 1
      [] a = "SWORD" /\ d = "LANCE" -> -1
      [] a = "LANCE" /\ d = "SWORD" -> 1
      [] a = "LANCE" /\ d = "AXE"   -> -1
      [] a = "AXE"   /\ d = "LANCE" -> 1
      [] a = "AXE"   /\ d = "SWORD" -> -1
      [] OTHER -> 0

\* TERRAIN_EFFECTS[t]["dodge"], ["defense"]
TerrainDodge(t)   == CASE t = "FOREST" -> 20 [] t = "MOUNTAIN" -> 10 [] OTHER -> 0
TerrainDefense(t) == CASE t = "FOREST" -> 1  [] t = "MOUNTAIN" -> 2  [] OTHER -> 0

\* margin of Unit.can_double_attack
DoubleAttackMargin == 4
\* critical hits triple the damage
CritMultiplier == 3

\* ---------------------------------------------------------------- payloads
\* Skill.trigger_value: None, an int, a weapon type or a tuple (operator, threshold)
NoTV == [kind |-> "none", op |-> "", n |-> 0, wtype |-> "NONE", stat |-> "none"]
HpTV(o, t) == [NoTV EXCEPT !.kind = "tuple", !.op = o, !.n = t]
WtTV(w) == [NoTV EXCEPT !.kind = "wtype", !.wtype = w]
PctTV(p) == [NoTV EXCEPT !.kind = "int", !.n = p]
StatTV(st, m) == [NoTV EXCEPT !.kind = "stat_tuple", !.stat = st, !.n = m]

\* Skill.effect_value / ItemEffect.effect_value: None, int, float (n is then
\* a percentage), True, or a dict with the keys listed in "keys"
NoEV == [kind |-> "none", n |-> 0, keys |-> {}, vantage |-> FALSE, attacks |-> 1,
         damage_multiplier |-> 100, defense_pierce |-> 0, heal_ratio |-> 0,
         stat |-> "none", condition |-> "NONE", hit_bonus |-> 0, skill |-> <<>>]
IntEV(v)   == [NoEV EXCEPT !.kind = "int", !.n = v]
FloatEV(p) == [NoEV EXCEPT !.kind = "float", !.n = p]
TrueEV     == [NoEV EXCEPT !.kind = "bool", !.n = 1]
VantageEV  == [NoEV EXCEPT !.kind = "dict", !.keys = {"vantage"}, !.vantage = TRUE]
AttacksEV(k, m) == [NoEV EXCEPT !.kind = "dict", !.keys = {"attacks", "damage_multiplier"},
                                !.attacks = k, !.damage_multiplier = m]
HealRatioEV(p) == [NoEV EXCEPT !.kind = "dict", !.keys = {"heal_ratio"}, !.heal_ratio = p]
ValueEV(v) == [NoEV EXCEPT !.kind = "dict", !.keys = {"value"}, !.n = v]
PierceEV(p) == [NoEV EXCEPT !.kind = "dict", !.keys = {"defense_pierce"}, !.defense_pierce = p]
StatBoostEV(st, v) == [NoEV EXCEPT !.kind = "tuple", !.stat = st, !.n = v]
StatsEV(st, v) == [NoEV EXCEPT !.kind = "dict", !.keys = {"stats"}, !.stat = st, !.n = v]
BreakerEV(w, h) == [NoEV EXCEPT !.kind = "dict", !.keys = {"condition", "hit_bonus", "avoid_bonus"},
                                !.condition = w, !.hit_bonus = h]
\* {"skill": skill_data}: s is the Skill that get_granted_skills builds from skill_data
GrantEV(s) == [NoEV EXCEPT !.kind = "dict", !.keys = {"skill"}, !.skill = <<s>>]

\* Skill.__init__
Skill(nm, trig, eff, tv, ev, dur) ==
    [name |-> nm, trigger_type |-> trig, effect_type |-> eff,
     trigger_value |-> tv, effect_value |-> ev, duration |-> dur,
     remaining_duration |-> IF dur > 0 THEN dur ELSE -1, is_active |-> FALSE]

\* Weapon.__init__ / LegendaryWeapon.__init__; an unarmed unit has equipped_weapon None
NoWeapon ==
    [present |-> FALSE, weapon_type |-> "NONE", might |-> 0, hit |-> 0, crit |-> 0,
     weight |-> 0, range_min |-> 0, range_max |-> 0, durability |-> 0,
     legendary |-> FALSE, effects |-> <<>>]
Weapon(wt, mt, h, c, w, rmin, rmax, dur) ==
    [present |-> TRUE, weapon_type |-> wt, might |-> mt, hit |-> h, crit |-> c,
     weight |-> w, range_min |-> rmin, range_max |-> rmax, durability |-> dur,
     legendary |-> FALSE, effects |-> <<>>]
LegendaryWeapon(wt, mt, h, c, w, rmin, rmax, dur, effs) ==
    [Weapon(wt, mt, h, c, w, rmin, rmax, dur) EXCEPT !.legendary = TRUE, !.effects = effs]
ItemEffect(et, ev) == [effect_type |-> et, effect_value |-> ev]

\* ------------------------------------------------------------------ unit.py
get_attack_power_physical(u) ==
    IF ~u.equipped_weapon.present THEN 0 ELSE u.strength + u.equipped_weapon.might
get_attack_power(u) ==
    IF ~u.equipped_weapon.present THEN 0
    ELSE IF u.equipped_weapon.weapon_type = "MAGIC" THEN u.magic + u.equipped_weapon.might
    ELSE u.strength + u.equipped_weapon.might

get_hit_rate(u) ==
    IF ~u.equipped_weapon.present THEN 0
    ELSE u.equipped_weapon.hit + (u.skill * 2) + FloorDiv(u.luck, 2)

get_avoid(u) == (u.speed * 2) + u.luck

get_critical_rate(u) ==
    IF ~u.equipped_weapon.present THEN 0
    ELSE u.equipped_weapon.crit + FloorDiv(u.skill, 2)

get_attack_speed(u) ==
    IF ~u.equipped_weapon.present THEN u.speed
    ELSE Max(0, u.speed - Max(0, u.equipped_weapon.weight - FloorDiv(u.strength, 5)))

can_double_attack_off(u, target) == get_attack_speed(u) > get_attack_speed(target) + DoubleAttackMargin
can_double_attack(u, target) == get_attack_speed(u) >= get_attack_speed(target) + DoubleAttackMargin

is_dead_strict(u) == u.current_hp < 0
is_dead(u) == u.current_hp <= 0

StatNames == {"strength", "magic", "skill", "speed", "luck", "defense", "resistance"}
\* getattr(unit, stat_name)
GetStat(u, st) ==
    CASE st = "strength" -> u.strength [] st = "magic" -> u.magic
      [] st = "skill" -> u.skill [] st = "speed" -> u.speed [] st = "luck" -> u.luck
      [] st = "defense" -> u.defense [] st = "resistance" -> u.resistance
      [] OTHER -> 0

RECURSIVE SumSeq(_)
SumSeq(q) == IF q = <<>> THEN 0 ELSE Head(q) + SumSeq(Tail(q))

\* the skill objects referenced by unit.active_skills, in list order
ActiveSkills(u) == [k \in 1..Len(u.active_skills) |-> u.skills[u.active_skills[k]]]

\* ---------------------------------------------------------------- skills.py
\* combat_data as built by perform_attack / perform_combat; a key that the
\* dict does not hold carries the default its readers pass to .get()
CombatData(isatt) ==
    [is_attacker |-> isatt, target_killed |-> FALSE, damage_received |-> 0,
     damage_dealt |-> 0, damage_modifier |-> 0, damage_reduction |-> 0,
     hit_modifier |-> 0, avoid_modifier |-> 0, crit_modifier |-> 0,
     guaranteed_follow_up |-> FALSE, guaranteed_counter |-> FALSE, temp |-> {}]

\* Skill.check_trigger; roll is the random.randint(1, 100) of the two
\* probabilistic trigger kinds
check_trigger(s, u, cd, roll) ==
    CASE s.trigger_type = "PERCENTAGE" -> roll <= s.trigger_value.n
      [] s.trigger_type = "STAT_BASED" ->
            /\ s.trigger_value.kind = "stat_tuple"
            /\ s.trigger_value.stat \in StatNames
            /\ roll * 100 <= GetStat(u, s.trigger_value.stat) * s.trigger_value.n
      [] s.trigger_type = "HP_THRESHOLD" ->
            /\ s.trigger_value.kind = "tuple"
            /\ CASE s.trigger_value.op = "<"  -> u.current_hp * 100 <  s.trigger_value.n * u.max_hp
                  [] s.trigger_value.op = "<=" -> u.current_hp * 100 <= s.trigger_value.n * u.max_hp
                  [] s.trigger_value.op = ">"  -> u.current_hp * 100 >  s.trigger_value.n * u.max_hp
                  [] s.trigger_value.op = ">=" -> u.current_hp * 100 >= s.trigger_value.n * u.max_hp
                  [] OTHER -> FALSE
      [] s.trigger_type = "WEAPON_TYPE" ->
            u.equipped_weapon.present /\ u.equipped_weapon.weapon_type = s.trigger_value.wtype
      [] s.trigger_type = "ALWAYS_ACTIVE" -> TRUE
      [] s.trigger_type = "ON_ATTACK" -> cd.is_attacker
      [] s.trigger_type = "ON_DEFEND" -> ~cd.is_attacker
      [] s.trigger_type = "ON_KILL" -> cd.target_killed
      [] s.trigger_type = "ON_DAMAGE" -> cd.damage_received > 0
      [] OTHER -> FALSE

\* the HEAL branch of apply_effect
HealAmount(s, u) ==
    IF s.effect_value.kind = "float" /\ 0 <= s.effect_value.n /\ s.effect_value.n <= 100
    THEN TruncPct(u.max_hp, s.effect_value.n)
    ELSE IF s.effect_value.kind = "float" THEN TruncPct(1, s.effect_value.n)
    ELSE s.effect_value.n

HealCapOff(u, amount) == u.current_hp + amount
HealCap(u, amount) == Min(u.max_hp, u.current_hp + amount)

\* the duration bookkeeping that ends apply_effect
TickDuration(s) ==
    IF s.duration > 0
    THEN LET r == s.remaining_duration - 1
         IN [s EXCEPT !.remaining_duration = r,
                      !.is_active = IF r <= 0 THEN FALSE ELSE @]
    ELSE s

\* apply_effect raises TypeError: "+ self.effect_value" on a value that is not a
\* number, or int(self.effect_value) on None, a dict or a tuple
Numeric(v) == v.kind \in {"int", "float", "bool"}
Raises(s) ==
    \/ s.effect_type \in {"DAMAGE_BOOST", "DAMAGE_REDUCE", "HIT_BOOST", "AVOID_BOOST", "CRITICAL_BOOST"}
          /\ ~Numeric(s.effect_value)
    \/ s.effect_type = "HEAL" /\ ~Numeric(s.effect_value)

\* Skill.apply_effect(unit, target, combat_data) for skill j of unit i:
\* the unit after the effect, the combat_data it wrote into, and err when it raised
apply_effect(us, i, j, cd) ==
    IF Raises(us[i].skills[j]) THEN [us |-> us, cd |-> cd, err |-> TRUE] ELSE
    LET s == us[i].skills[j]
        e == s.effect_type
        v == s.effect_value
        cd1 == CASE e = "STAT_BOOST" /\ v.kind = "tuple" /\ v.stat \in StatNames ->
                      [cd EXCEPT !.temp = {p \in @ : p[1] # v.stat}
                                          \cup {<<v.stat, GetStat(us[i], v.stat) + v.n>>}]
                 [] e = "DAMAGE_BOOST"   -> [cd EXCEPT !.damage_modifier = @ + v.n]
                 [] e = "DAMAGE_REDUCE"  -> [cd EXCEPT !.damage_reduction = @ + v.n]
                 [] e = "HIT_BOOST"      -> [cd EXCEPT !.hit_modifier = @ + v.n]
                 [] e = "AVOID_BOOST"    -> [cd EXCEPT !.avoid_modifier = @ + v.n]
                 [] e = "CRITICAL_BOOST" -> [cd EXCEPT !.crit_modifier = @ + v.n]
                 [] e = "FOLLOW_UP"      -> [cd EXCEPT !.guaranteed_follow_up = TRUE]
                 [] e = "COUNTER_ATTACK" -> [cd EXCEPT !.guaranteed_counter = TRUE]
                 [] OTHER -> cd
        hp1 == IF e = "HEAL" THEN HealCap(us[i], HealAmount(s, us[i]))
               ELSE us[i].current_hp
    IN [us |-> [us EXCEPT ![i].current_hp = hp1,
                          ![i].skills[j] = TickDuration(s)],
        cd |-> cd1, err |-> FALSE]

\* Unit.activate_skills(trigger_type, combat_data), from roster position j on
RECURSIVE ActivateFrom(_, _, _, _, _, _), ActivateNext(_, _, _, _, _)
ActivateFrom(us, i, trig, cd, roll, j) ==
    IF j > Len(us[i].skills) THEN [us |-> us, cd |-> cd, err |-> FALSE]
    ELSE IF us[i].skills[j].trigger_type = trig /\ check_trigger(us[i].skills[j], us[i], cd, roll)
    THEN ActivateNext(apply_effect([us EXCEPT ![i].skills[j].is_active = TRUE,
                                              ![i].active_skills = Append(@, j)],
                                   i, j, cd),
                      i, trig, roll, j)
    ELSE ActivateFrom(us, i, trig, cd, roll, j + 1)

ActivateNext(r, i, trig, roll, j) ==
    IF r.err THEN r ELSE ActivateFrom(r.us, i, trig, r.cd, roll, j + 1)

activate_skills(us, i, trig, cd, roll) == ActivateFrom(us, i, trig, cd, roll, 1)

\* Unit.deactivate_skills
deactivate_skills_off(u) ==
    [u EXCEPT !.skills = [j \in 1..Len(u.skills) |->
                            IF \E k \in 1..Len(u.active_skills) : u.active_skills[k] = j
                            THEN [u.skills[j] EXCEPT !.is_active = FALSE] ELSE u.skills[j]]]
deactivate_skills(u) ==
    [u EXCEPT !.skills = [j \in 1..Len(u.skills) |->
                            IF \E k \in 1..Len(u.active_skills) : u.active_skills[k] = j
                            THEN [u.skills[j] EXCEPT !.is_active = FALSE] ELSE u.skills[j]],
              !.active_skills = <<>>,
              !.temp_stat_modifiers = {}]

\* ---------------------------------------------------------------- combat.py
Clamp100_off(x) == x
Clamp100(x) == Max(0, Min(100, x))

\* the matchup test shared by calculate_hit_chance and calculate_damage
TriangleBonus(ua, ud) ==
    IF ua.equipped_weapon.present /\ ud.equipped_weapon.present
    THEN WEAPON_TRIANGLE(ua.equipped_weapon.weapon_type, ud.equipped_weapon.weapon_type)
    ELSE 0

\* sum of effect_value over the active skills of u with effect type e
SkillSum(u, e) ==
    SumSeq([k \in 1..Len(u.active_skills) |->
              IF ActiveSkills(u)[k].effect_type = e THEN ActiveSkills(u)[k].effect_value.n ELSE 0])

\* CombatSystem.calculate_hit_chance, before the clamp
HitChanceRaw(ua, ud) ==
    LET hit_rate == get_hit_rate(ua)
        avoid == get_avoid(ud)
        terrain_dodge == TerrainDodge(ud.terrain)
        weapon_bonus == TriangleBonus(ua, ud) * 15
        breaker == SumSeq([k \in 1..Len(ua.active_skills) |->
                     LET sk == ActiveSkills(ua)[k]
                     IN IF /\ sk.effect_type = "SPECIAL_ATTACK"
                           /\ sk.effect_value.kind = "dict"
                           /\ sk.effect_value.condition # "NONE"
                           /\ ud.equipped_weapon.present
                           /\ sk.effect_value.condition = ud.equipped_weapon.weapon_type
                        THEN sk.effect_value.hit_bonus ELSE 0])
        hit_modifier == SkillSum(ua, "HIT_BOOST") + breaker
        avoid_modifier == SkillSum(ud, "AVOID_BOOST")
    IN hit_rate + weapon_bonus + hit_modifier - avoid - terrain_dodge - avoid_modifier

calculate_hit_chance(ua, ud) == Clamp100(HitChanceRaw(ua, ud))

\* CombatSystem.calculate_damage, before the floor at 0
DamageRaw(ua, ud) ==
    LET attack_power == get_attack_power(ua)
        is_magic == ua.equipped_weapon.present /\ ua.equipped_weapon.weapon_type = "MAGIC"
        defense_stat == IF is_magic THEN ud.resistance ELSE ud.defense
        terrain_defense == TerrainDefense(ud.terrain)
        weapon_bonus == TriangleBonus(ua, ud) * 1
        pierce == SumSeq([k \in 1..Len(ua.active_skills) |->
                     LET sk == ActiveSkills(ua)[k]
                     IN IF /\ sk.effect_type = "SPECIAL_ATTACK"
                           /\ sk.effect_value.kind = "dict"
                           /\ "defense_pierce" \in sk.effect_value.keys
                        THEN TruncPct(defense_stat, sk.effect_value.defense_pierce) ELSE 0])
        damage_modifier == SkillSum(ua, "DAMAGE_BOOST") + pierce
        damage_reduction == SumSeq([k \in 1..Len(ud.active_skills) |->
                     LET sk == ActiveSkills(ud)[k]
                     IN IF sk.effect_type = "DAMAGE_REDUCE"
                        THEN IF sk.effect_value.kind = "float"
                             THEN TruncPct(attack_power - defense_stat, sk.effect_value.n)
                             ELSE sk.effect_value.n
                        ELSE 0])
    IN attack_power + weapon_bonus + damage_modifier - defense_stat - terrain_defense - damage_reduction

calculate_damage(ua, ud) == Max(0, DamageRaw(ua, ud))

\* CombatSystem.calculate_crit_chance
calculate_crit_chance(ua, ud) ==
    Clamp100(get_critical_rate(ua) + SkillSum(ua, "CRITICAL_BOOST") - ud.luck)

\* ------------------------------------------------------ combat_integration.py
\* isinstance(unit.equipped_weapon, LegendaryWeapon)
HasLegendary(u) == u.equipped_weapon.present /\ u.equipped_weapon.legendary

\* sum of effect_value.get("value", 0) over the item effects of type et
ItemValueSum(u, et) ==
    IF ~HasLegendary(u) THEN 0
    ELSE SumSeq([k \in 1..Len(u.equipped_weapon.effects) |->
                   LET ef == u.equipped_weapon.effects[k]
                   IN IF ef.effect_type = et /\ "value" \in ef.effect_value.keys
                      THEN ef.effect_value.n ELSE 0])

\* LegendaryWeapon.get_granted_skills: a fresh Skill object for every skill_grant
\* effect, on every call (the items of the sample data are built with the
\* default skills=None, so the "directly set" list they extend with is empty)
IsGrant(ef) == ef.effect_type = "skill_grant" /\ ef.effect_value.skill # <<>>
get_granted_skills(w) ==
    [k \in 1..Len(SelectSeq(w.effects, IsGrant)) |->
        SelectSeq(w.effects, IsGrant)[k].effect_value.skill[1]]

\* the head of EnhancedCombatSystem.perform_attack: "if skill not in
\* attacker.skills: attacker.add_skill(skill)"; Skill defines no __eq__, so a
\* fresh object is never "in" the roster and is always appended
GrantSkills(us, a, sys) ==
    IF sys.enh /\ HasLegendary(us[a])
    THEN [us EXCEPT ![a].skills = @ \o get_granted_skills(us[a].equipped_weapon)]
    ELSE us

\* EnhancedCombatSystem.calculate_hit_chance; sup: a support_system was passed
enhanced_calculate_hit_chance(ua, ud, sup) ==
    LET base == calculate_hit_chance(ua, ud)
        h1 == IF sup THEN base + ua.support.hit_bonus - ud.support.avoid_bonus ELSE base
    IN Clamp100(h1 + ItemValueSum(ua, "hit_boost"))

\* EnhancedCombatSystem.calculate_damage
enhanced_calculate_damage(ua, ud, sup) ==
    LET base == calculate_damage(ua, ud)
        d1 == IF sup THEN base + ua.support.damage_bonus - ud.support.defense_bonus ELSE base
    IN Max(0, d1 + ItemValueSum(ua, "damage_boost") - ItemValueSum(ud, "damage_reduce"))

\* EnhancedCombatSystem.calculate_crit_chance
enhanced_calculate_crit_chance(ua, ud, sup) ==
    Clamp100(calculate_crit_chance(ua, ud) + ItemValueSum(ua, "critical_boost"))

\* ------------------------------------------------------------- perform_attack
\* the multi-hit loop: for i in range(attack_count), break on a dead target
RECURSIVE MultiHit(_, _, _, _, _, _)
MultiHit(hp, i, count, dmg, crit, total) ==
    IF i >= count THEN [hp |-> hp, total |-> total]
    ELSE LET attack_damage == IF i = 0 /\ crit THEN dmg * CritMultiplier ELSE dmg
             hp1 == Max(0, hp - attack_damage)
         IN IF hp1 <= 0 THEN [hp |-> hp1, total |-> total + attack_damage]
            ELSE MultiHit(hp1, i + 1, count, dmg, crit, total + attack_damage)

\* the loop over attacker.active_skills that looks for a multi-hit special
\* attack: the last such skill of the list sets count and multiplier
MultiFromSkills(u) ==
    LET idx == {k \in 1..Len(u.active_skills) :
                  /\ ActiveSkills(u)[k].effect_type = "SPECIAL_ATTACK"
                  /\ ActiveSkills(u)[k].effect_value.kind = "dict"
                  /\ "attacks" \in ActiveSkills(u)[k].effect_value.keys}
    IN IF idx = {} THEN [multi_attack |-> FALSE, attack_count |-> 1, damage_multiplier |-> 100]
       ELSE LET k == CHOOSE x \in idx : \A y \in idx : y <= x
            IN [multi_attack |-> TRUE,
                attack_count |-> ActiveSkills(u)[k].effect_value.attacks,
                damage_multiplier |-> ActiveSkills(u)[k].effect_value.damage_multiplier]

\* the same search over the effects of an equipped special item (enhanced only)
RECURSIVE MultiFromItems(_, _, _)
MultiFromItems(effs, k, m) ==
    IF k > Len(effs) THEN m
    ELSE LET ef == effs[k]
         IN IF /\ ef.effect_type = "special_attack"
               /\ ef.effect_value.kind = "dict"
               /\ "attacks" \in ef.effect_value.keys
               /\ (~m.multi_attack \/ ef.effect_value.attacks > m.attack_count)
            THEN MultiFromItems(effs, k + 1,
                    [multi_attack |-> TRUE, attack_count |-> ef.effect_value.attacks,
                     damage_multiplier |-> ef.effect_value.damage_multiplier])
            ELSE MultiFromItems(effs, k + 1, m)

\* successive attacker.current_hp = min(max_hp, current_hp + heal_amount)
RECURSIVE HealSeq(_, _, _)
HealSeq(hp, maxhp, amounts) ==
    IF amounts = <<>> THEN hp
    ELSE HealSeq(Min(maxhp, hp + Head(amounts)), maxhp, Tail(amounts))

\* heal_ratio amounts of the attacker's active HEAL skills, then (enhanced)
\* of the heal effects of its special item
HealRatioAmounts(u, total_damage, enh) ==
    LET fromSkills == [k \in 1..Len(u.active_skills) |->
                          LET sk == ActiveSkills(u)[k]
                          IN IF /\ sk.effect_type = "HEAL"
                                /\ sk.effect_value.kind = "dict"
                                /\ "heal_ratio" \in sk.effect_value.keys
                             THEN TruncPct(total_damage, sk.effect_value.heal_ratio) ELSE 0]
        fromItem == IF enh /\ HasLegendary(u)
                    THEN [k \in 1..Len(u.equipped_weapon.effects) |->
                            LET ef == u.equipped_weapon.effects[k]
                            IN IF /\ ef.effect_type = "heal"
                                  /\ ef.effect_value.kind = "dict"
                                  /\ "heal_ratio" \in ef.effect_value.keys
                               THEN TruncPct(total_damage, ef.effect_value.heal_ratio) ELSE 0]
                    ELSE <<>>
    IN fromSkills \o fromItem

\* the durability update of a landed strike
UseWeaponAlways(w, hit) == IF w.present THEN [w EXCEPT !.durability = @ - 1] ELSE w
UseWeapon(w, hit) == IF hit /\ w.present THEN [w EXCEPT !.durability = @ - 1] ELSE w

\* SupportSystem.apply_support_effects: folds the provider's deltas into combat_data
apply_support_effects(ua, ud, cd) ==
    [cd EXCEPT !.damage_modifier = @ + ua.support.damage_bonus,
               !.damage_reduction = @ + ud.support.defense_bonus,
               !.hit_modifier = @ + ua.support.hit_bonus,
               !.avoid_modifier = @ + ud.support.avoid_bonus]

\* CombatSystem.perform_attack / EnhancedCombatSystem.perform_attack, in the
\* source's order.  Striker a, target d; sys.enh selects the enhanced system,
\* sys.sup says a support_system was passed.  Each stage hands its locals on.

\* the three numbers of the strike, computed after the on-attack / on-defend triggers
StrikeHitChance(ua, ud, sys) ==
    IF sys.enh THEN enhanced_calculate_hit_chance(ua, ud, sys.sup) ELSE calculate_hit_chance(ua, ud)
StrikeDamage(ua, ud, sys) ==
    IF sys.enh THEN enhanced_calculate_damage(ua, ud, sys.sup) ELSE calculate_damage(ua, ud)
StrikeCritChance(ua, ud, sys) ==
    IF sys.enh THEN enhanced_calculate_crit_chance(ua, ud, sys.sup) ELSE calculate_crit_chance(ua, ud)

\* multi_attack, attack_count, damage_multiplier of the strike
StrikeMulti(ua, sys) ==
    IF sys.enh /\ HasLegendary(ua)
    THEN MultiFromItems(ua.equipped_weapon.effects, 1, MultiFromSkills(ua))
    ELSE MultiFromSkills(ua)

\* "if hit:" damage application: the target's hp afterwards and total_damage
StrikeDealt(hp, hit, crit, damage, m) ==
    IF ~hit THEN [hp |-> hp, total |-> 0]
    ELSE IF m.multi_attack
    THEN MultiHit(hp, 0, m.attack_count, TruncPct(damage, m.damage_multiplier), crit, 0)
    ELSE [hp |-> Max(0, hp - (IF crit THEN damage * CritMultiplier ELSE damage)),
          total |-> IF crit THEN damage * CritMultiplier ELSE damage]

\* the result dict ("by" and "target" are bookkeeping of the model: who struck whom)
StrikeResult(a, d, hit, crit, total, killed, hit_chance, crit_chance, m) ==
    [by |-> a, target |-> d, hit |-> hit, damage |-> IF hit THEN total ELSE 0,
     critical |-> crit, killed |-> killed, hit_chance |-> hit_chance,
     crit_chance |-> crit_chance, multi_attack |-> m.multi_attack,
     attack_count |-> IF m.multi_attack /\ hit THEN m.attack_count ELSE 1]

\* an exception left perform_attack before the strike: no result dict exists
StrikeAbort(us, a, d) ==
    [us |-> us, err |-> TRUE, struck |-> FALSE,
     result |-> StrikeResult(a, d, FALSE, FALSE, 0, FALSE, 0, 0,
                             [multi_attack |-> FALSE, attack_count |-> 1, damage_multiplier |-> 100])]

\* on-kill triggers of the striker when the target is dead; the strike has
\* been carried out (struck) whether or not a trigger raises afterwards
StrikeReturn(k, result) == [us |-> k.us, result |-> result, err |-> k.err, struck |-> TRUE]

StrikeOnKill(r, a, d, result) ==
    IF ~r.err /\ is_dead(r.us[d])
    THEN StrikeReturn(activate_skills(r.us, a, "ON_KILL", [r.cd EXCEPT !.target_killed = TRUE], 1),
                      result)
    ELSE StrikeReturn(r, result)

\* on-damage triggers of the striker after a damaging hit
StrikeOnDamage(us, cd, a, d, result) ==
    StrikeOnKill(IF result.hit /\ result.damage > 0
                 THEN activate_skills(us, a, "ON_DAMAGE",
                                      [cd EXCEPT !.damage_dealt = result.damage], 1)
                 ELSE [us |-> us, cd |-> cd, err |-> FALSE],
                 a, d, result)

\* hp of the target, heal_ratio healing and durability of the striker
StrikeApply(us, cd, a, d, hit, crit, dealt, hit_chance, crit_chance, m, sys) ==
    StrikeOnDamage(
        [us EXCEPT ![d].current_hp = dealt.hp,
                   ![a].current_hp =
                       IF hit THEN HealSeq(@, us[a].max_hp, HealRatioAmounts(us[a], dealt.total, sys.enh))
                       ELSE @,
                   ![a].equipped_weapon = UseWeapon(@, hit)],
        cd, a, d,
        StrikeResult(a, d, hit, crit, dealt.total, dealt.hp <= 0, hit_chance, crit_chance, m))

\* the hit and critical rolls
StrikeRoll(us, cd, a, d, hit_chance, damage, crit_chance, hit_roll, crit_roll, m, sys) ==
    StrikeApply(us, cd, a, d,
                hit_roll <= hit_chance,
                hit_roll <= hit_chance /\ crit_roll <= crit_chance,
                StrikeDealt(us[d].current_hp, hit_roll <= hit_chance,
                            hit_roll <= hit_chance /\ crit_roll <= crit_chance, damage, m),
                hit_chance, crit_chance, m, sys)

StrikeNumbers(r, a, d, hit_roll, crit_roll, sys) ==
    IF r.err THEN StrikeAbort(r.us, a, d) ELSE
    StrikeRoll(r.us, r.cd, a, d,
               StrikeHitChance(r.us[a], r.us[d], sys),
               StrikeDamage(r.us[a], r.us[d], sys),
               StrikeCritChance(r.us[a], r.us[d], sys),
               hit_roll, crit_roll, StrikeMulti(r.us[a], sys), sys)

\* on-defend triggers of the target
StrikeOnDefend(r, a, d, hit_roll, crit_roll, sys) ==
    IF r.err THEN StrikeAbort(r.us, a, d) ELSE
    StrikeNumbers(activate_skills(r.us, d, "ON_DEFEND", r.cd, 1), a, d, hit_roll, crit_roll, sys)

\* combat_data, (enhanced) support effects, on-attack triggers of the striker:
\* yields [us: the units afterwards, result: the result dict, err: an exception
\* propagated out of the call, struck: the strike was carried out]
perform_attack(us, a, d, hit_roll, crit_roll, sys) ==
    StrikeOnDefend(
        activate_skills(GrantSkills(us, a, sys), a, "ON_ATTACK",
                        IF sys.enh /\ sys.sup
                        THEN apply_support_effects(us[a], us[d], CombatData(TRUE))
                        ELSE CombatData(TRUE), 1),
        a, d, hit_roll, crit_roll, sys)

\* ------------------------------------------------------------- perform_combat
\* the vantage scan over unit.skills that opens perform_combat
SkillVantage(u, cd) ==
    \E j \in 1..Len(u.skills) :
        /\ u.skills[j].trigger_type = "HP_THRESHOLD"
        /\ u.skills[j].effect_type = "SPECIAL_ATTACK"
        /\ check_trigger(u.skills[j], u, cd, 1)
        /\ u.skills[j].effect_value.kind = "dict"
        /\ u.skills[j].effect_value.vantage

\* the vantage scan over the effects of an equipped special item (enhanced)
ItemVantage(u) ==
    /\ HasLegendary(u)
    /\ \E k \in 1..Len(u.equipped_weapon.effects) :
          /\ u.equipped_weapon.effects[k].effect_type = "special_attack"
          /\ u.equipped_weapon.effects[k].effect_value.kind = "dict"
          /\ u.equipped_weapon.effects[k].effect_value.vantage

\* Python truthiness of an effect payload
Truthy(ev) ==
    CASE ev.kind = "none" -> FALSE
      [] ev.kind = "dict" -> ev.keys # {}
      [] ev.kind \in {"int", "float", "bool"} -> ev.n # 0
      [] OTHER -> TRUE

\* an item effect of type et whose effect_value is truthy
ItemFlag(u, et) ==
    /\ HasLegendary(u)
    /\ \E k \in 1..Len(u.equipped_weapon.effects) :
          /\ u.equipped_weapon.effects[k].effect_type = et
          /\ Truthy(u.equipped_weapon.effects[k].effect_value)

\* an active skill of effect type e is in unit.active_skills
ActiveFlag(u, e) == \E k \in 1..Len(u.active_skills) : ActiveSkills(u)[k].effect_type = e

\* LegendaryWeapon.apply_effects: stat_boost effects go into temp_stat_modifiers
RECURSIVE ApplyItemEffects(_, _, _)
ApplyItemEffects(mods, effs, k) ==
    IF k > Len(effs) THEN mods
    ELSE LET ef == effs[k]
         IN IF ef.effect_type = "stat_boost" /\ "stats" \in ef.effect_value.keys
            THEN LET old == IF \E p \in mods : p[1] = ef.effect_value.stat
                            THEN (CHOOSE p \in mods : p[1] = ef.effect_value.stat)[2] ELSE 0
                 IN ApplyItemEffects({p \in mods : p[1] # ef.effect_value.stat}
                                        \cup {<<ef.effect_value.stat, old + ef.effect_value.n>>},
                                     effs, k + 1)
            ELSE ApplyItemEffects(mods, effs, k + 1)

apply_effects(u) ==
    [u EXCEPT !.temp_stat_modifiers = ApplyItemEffects(@, u.equipped_weapon.effects, 1)]

\* LegendaryWeapon.remove_effects
remove_effects(u) == [u EXCEPT !.temp_stat_modifiers = {}]

\* Manhattan distance of the counter range check
Distance(u, v) == Abs(u.x - v.x) + Abs(u.y - v.y)

counter_range_check(sec, fst) ==
    /\ sec.equipped_weapon.present
    /\ sec.equipped_weapon.range_min <= Distance(fst, sec)
    /\ Distance(fst, sec) <= sec.equipped_weapon.range_max

\* guaranteed_counter of the counter stage; sec is temp_defender
guaranteed_counter(sec, sys) ==
    \/ ActiveFlag(sec, "COUNTER_ATTACK")
    \/ sys.enh /\ ItemFlag(sec, "counter_attack")

CanCounter(fst, sec, sys) == counter_range_check(sec, fst) \/ guaranteed_counter(sec, sys)

\* guaranteed_follow_up_attacker / _defender of the follow-up stage
guaranteed_follow_up(u, sys) ==
    \/ ActiveFlag(u, "FOLLOW_UP")
    \/ sys.enh /\ ItemFlag(u, "follow_up")

FollowUpEligible(u, target, sys) == can_double_attack(u, target) \/ guaranteed_follow_up(u, sys)

Sum(results) == SumSeq([k \in 1..Len(results) |-> results[k].damage])

SkillNames(u) == [k \in 1..Len(u.active_skills) |-> ActiveSkills(u)[k].name]

\* the bucket a strike of the first / second striker is appended to
AppendFirst(res, r, swap) ==
    IF swap THEN [res EXCEPT !.defender_results = Append(@, r)]
    ELSE [res EXCEPT !.attacker_results = Append(@, r)]
AppendSecond(res, r, swap) ==
    IF swap THEN [res EXCEPT !.attacker_results = Append(@, r)]
    ELSE [res EXCEPT !.defender_results = Append(@, r)]

\* "if swap_roles: exchange attacker_results and defender_results"
SwapBack(res, swap) ==
    IF swap THEN [res EXCEPT !.attacker_results = res.defender_results,
                             !.defender_results = res.attacker_results]
    ELSE res

\* post_combat_data / defender_post_combat_data of exit block number branch
\* (1: target dead after the first strike, 2: first striker dead after the
\* counter, 3 / 4: a lethal follow-up of the first / second striker, 5: full
\* completion; the five copies of the block differ in these dicts only)
AttackerPostData(us, res1, a, d, branch) ==
    [CombatData(TRUE) EXCEPT
        !.damage_dealt = Sum(res1.attacker_results),
        !.damage_received = IF branch = 1 THEN 0 ELSE Sum(res1.defender_results),
        !.target_killed = is_dead(us[d])]
DefenderPostData(us, res1, a, d, branch) ==
    [CombatData(FALSE) EXCEPT
        !.damage_dealt = IF branch = 1 THEN 0 ELSE Sum(res1.defender_results),
        !.damage_received = Sum(res1.attacker_results),
        !.target_killed = IF branch \in {1, 3} THEN FALSE ELSE is_dead(us[a])]

\* (enhanced) remove_effects for each holder of a special item
RemoveItemEffects(us, sys) ==
    IF sys.enh
    THEN [i \in Units |-> IF HasLegendary(us[i]) THEN remove_effects(us[i]) ELSE us[i]]
    ELSE us

\* snapshot of the activated skill names, then deactivate_skills on both units
ExitCleanup(us, res1, a, d) ==
    [us |-> [i \in Units |-> IF i \in {a, d} THEN deactivate_skills(us[i]) ELSE us[i]],
     results |-> [res1 EXCEPT !.activated_skills =
                     [attacker |-> SkillNames(us[a]), defender |-> SkillNames(us[d])]]]

ExitPostDefender(us, dpost, res1, a, d, sys) ==
    ExitCleanup(RemoveItemEffects(activate_skills(us, d, "POST_COMBAT", dpost, 1).us, sys),
                res1, a, d)

ExitPost(us, res1, a, d, branch, sys) ==
    ExitPostDefender(
        activate_skills(us, a, "POST_COMBAT", AttackerPostData(us, res1, a, d, branch), 1).us,
        DefenderPostData(us, res1, a, d, branch), res1, a, d, sys)

\* bookkeeping of the model: the outcome remembers the two post-combat dicts
\* the exit block built (the code passes them to activate_skills and drops them)
WithPost(e, apost, dpost) ==
    [e EXCEPT !.results.post = [attacker |-> apost, defender |-> dpost]]

\* the block that ends every branch of perform_combat: exchange the buckets,
\* post-combat triggers, (enhanced) remove_effects, snapshot of the activated
\* skill names, deactivate_skills on both units
ExitBlock(us, res, swap, a, d, branch, sys) ==
    WithPost(ExitPost(us, SwapBack(res, swap), a, d, branch, sys),
             AttackerPostData(us, SwapBack(res, swap), a, d, branch),
             DefenderPostData(us, SwapBack(res, swap), a, d, branch))

\* ------------------------------------------------------------------- state
VARIABLES
    unit,         \* the two Unit objects on the map, by index
    sys,          \* which system resolves encounters, and whether with a support provider
    pc,           \* position inside perform_combat ("idle" between calls)
    call,         \* the caller's roles: [attacker, defender]
    swap_roles,   \* perform_combat's local swap_roles
    can_counter,  \* perform_combat's local can_counter
    results,      \* the outcome dict under construction / returned
    strikes,      \* every result of the current call in the order struck (bookkeeping)
    start,        \* the units as they were when the current call began (bookkeeping)
    ncalls        \* engine calls made so far

vars == <<unit, sys, pc, call, swap_roles, can_counter, results, strikes, start, ncalls>>

\* ------------------------------------------------------------ sample data
Stats(hp, str, mag, skl, spd, lck, def, res) ==
    [max_hp |-> hp, strength |-> str, magic |-> mag, skill |-> skl, speed |-> spd,
     luck |-> lck, defense |-> def, resistance |-> res]

NoSupport == [damage_bonus |-> 0, defense_bonus |-> 0, hit_bonus |-> 0, avoid_bonus |-> 0]
\* SupportBonus.calculate_from_level(C)
SupportC == [damage_bonus |-> 1, defense_bonus |-> 1, hit_bonus |-> 5, avoid_bonus |-> 5]

\* Unit.__init__ followed by placement, equipment and add_skill calls
MkUnit(st, hp, w, roster, px, py, ter, sb) ==
    [max_hp |-> st.max_hp, current_hp |-> hp, strength |-> st.strength, magic |-> st.magic,
     skill |-> st.skill, speed |-> st.speed, luck |-> st.luck, defense |-> st.defense,
     resistance |-> st.resistance, x |-> px, y |-> py, terrain |-> ter,
     equipped_weapon |-> w, skills |-> roster, active_skills |-> <<>>,
     temp_stat_modifiers |-> {}, support |-> sb]

Vantage   == Skill("vantage", "HP_THRESHOLD", "SPECIAL_ATTACK", HpTV("<", 50), VantageEV, -1)
Adept     == Skill("adept", "ON_ATTACK", "FOLLOW_UP", NoTV, TrueEV, -1)
Riposte   == Skill("riposte", "ON_ATTACK", "COUNTER_ATTACK", NoTV, TrueEV, -1)
Mend      == Skill("mend", "ON_ATTACK", "HEAL", NoTV, IntEV(5), -1)
Renewal   == Skill("renewal", "ON_KILL", "HEAL", NoTV, FloatEV(50), -1)
Astra     == Skill("astra", "ON_ATTACK", "SPECIAL_ATTACK", NoTV, AttacksEV(2, 50), -1)
Faire     == Skill("faire", "ON_ATTACK", "DAMAGE_BOOST", NoTV, IntEV(3), 1)
Pavise    == Skill("pavise", "ON_DEFEND", "DAMAGE_REDUCE", NoTV, FloatEV(50), -1)
Might     == Skill("might", "ON_ATTACK", "STAT_BOOST", NoTV, StatBoostEV("strength", 2), -1)
Focus     == Skill("focus", "ON_ATTACK", "HIT_BOOST", NoTV, IntEV(5), -1)
Wrath     == Skill("wrath", "ON_DAMAGE", "CRITICAL_BOOST", NoTV, IntEV(20), -1)
Rally     == Skill("rally", "PRE_COMBAT", "HIT_BOOST", NoTV, IntEV(10), -1)
Lifetaker == Skill("lifetaker", "POST_COMBAT", "HEAL", NoTV, IntEV(5), -1)
Steady    == Skill("steady", "ALWAYS_ACTIVE", "AVOID_BOOST", NoTV, IntEV(10), -1)
Swordsman == Skill("swordsman", "WEAPON_TYPE", "HIT_BOOST", WtTV("SWORD"), IntEV(10), -1)
\* a damage boost built without its effect_value (the constructor's default None)
Hex       == Skill("hex", "ON_ATTACK", "DAMAGE_BOOST", NoTV, NoEV, -1)

IronSword == Weapon("SWORD", 5, 90, 10, 5, 1, 1, 1)
Javelin   == Weapon("LANCE", 6, 80, 0, 4, 1, 2, 3)
Bow       == Weapon("BOW", 4, 85, 0, 3, 2, 2, 2)
HandAxe   == Weapon("AXE", 8, 70, 5, 3, 1, 2, 2)
\* special items: effects as LegendaryItemGenerator hands them out
Sol       == LegendaryWeapon("SWORD", 6, 90, 0, 5, 1, 1, 2,
                 <<ItemEffect("heal", HealRatioEV(50)), ItemEffect("stat_boost", StatsEV("strength", 2))>>)
Gae       == LegendaryWeapon("LANCE", 6, 80, 0, 4, 1, 1, 2,
                 <<ItemEffect("counter_attack", ValueEV(1)), ItemEffect("follow_up", ValueEV(1))>>)

Fang      == LegendaryWeapon("LANCE", 6, 80, 0, 4, 1, 1, 3,
                 <<ItemEffect("special_attack", VantageEV), ItemEffect("skill_grant", GrantEV(Focus))>>)

Stats1 == Stats(20, 10, 2, 5, 9, 4, 3, 1)
Stats2 == Stats(20, 8, 0, 4, 4, 2, 5, 0)

\* what a unit brings into the first call: weapon, skill roster, current hp
Loadout(w, r, hp) == [weapon |-> w, roster |-> r, hp |-> hp]
Loadouts1 == {Loadout(IronSword, <<Wrath, Rally, Lifetaker, Steady, Swordsman>>, 20),
              Loadout(IronSword, <<Vantage, Faire>>, 8),
              Loadout(Bow, <<Adept, Mend, Focus>>, 20),
              Loadout(NoWeapon, <<Riposte>>, 20),
              Loadout(Sol, <<Astra, Renewal>>, 8),
              Loadout(IronSword, <<Hex>>, 20)}
Loadouts2 == {Loadout(HandAxe, <<Might>>, 20),
              Loadout(Javelin, <<Vantage, Pavise>>, 8),
              Loadout(Gae, <<Adept>>, 20),
              Loadout(NoWeapon, <<Riposte, Mend>>, 8),
              Loadout(Fang, <<>>, 20)}

Systems == {[enh |-> FALSE, sup |-> FALSE], [enh |-> TRUE, sup |-> FALSE], [enh |-> TRUE, sup |-> TRUE]}

\* the random.randint(1, 100) draws of a strike: (hit_roll, crit_roll)
Rolls == {<<1, 1>>, <<1, 100>>, <<100, 100>>}

EmptyResults == [attacker_results |-> <<>>, defender_results |-> <<>>,
                 activated_skills |-> [attacker |-> <<>>, defender |-> <<>>],
                 post |-> [attacker |-> CombatData(TRUE), defender |-> CombatData(FALSE)]]

Init ==
    /\ \E l1 \in Loadouts1, l2 \in Loadouts2, p2 \in {<<1, 0>>, <<1, 1>>} :
          unit = [i \in Units |->
                    IF i = 1 THEN MkUnit(Stats1, l1.hp, l1.weapon, l1.roster, 0, 0, "PLAIN", SupportC)
                    ELSE MkUnit(Stats2, l2.hp, l2.weapon, l2.roster, p2[1], p2[2], "FOREST", NoSupport)]
    /\ sys \in Systems
    /\ pc = "idle"
    /\ call = [attacker |-> 1, defender |-> 2]
    /\ swap_roles = FALSE
    /\ can_counter = FALSE
    /\ results = EmptyResults
    /\ strikes = <<>>
    /\ start = unit
    /\ ncalls = 0

\* temp_attacker / temp_defender of the running call
First == IF swap_roles THEN call.defender ELSE call.attacker
Second == IF swap_roles THEN call.attacker ELSE call.defender

\* a call can be made between calls; an exception that left a call is not
\* caught anywhere, so nothing runs after it
Callable == pc \in {"idle", "done", "captured"} /\ ncalls < MaxCalls

\* (enhanced) apply_effects for each holder of a special item
ApplyItems(us, enh) ==
    IF enh THEN [i \in Units |-> IF HasLegendary(us[i]) THEN apply_effects(us[i]) ELSE us[i]]
    ELSE us

\* attacker_has_vantage / defender_has_vantage and the role order
HasVantage(u, isatt, enh) == SkillVantage(u, CombatData(isatt)) \/ (enh /\ ItemVantage(u))
SwapRoles(us, a, d, enh) == HasVantage(us[d], FALSE, enh) /\ ~HasVantage(us[a], TRUE, enh)

\* pre-combat triggers of the attacker, then of the defender
PreCombat(us, a, d) ==
    activate_skills(activate_skills(us, a, "PRE_COMBAT", CombatData(TRUE), 1).us,
                    d, "PRE_COMBAT", CombatData(FALSE), 1).us

\* perform_combat up to the first strike: vantage scan, role order,
\* pre-combat triggers, (enhanced) apply_effects, empty outcome
Begin(a, d) ==
    /\ Callable
    /\ a # d /\ ~is_dead(unit[a]) /\ ~is_dead(unit[d])
    /\ swap_roles' = SwapRoles(unit, a, d, sys.enh)
    /\ unit' = ApplyItems(PreCombat(unit, a, d), sys.enh)
    /\ call' = [attacker |-> a, defender |-> d]
    /\ can_counter' = FALSE
    /\ results' = EmptyResults
    /\ strikes' = <<>>
    /\ start' = unit
    /\ ncalls' = ncalls + 1
    /\ pc' = "first"
    /\ UNCHANGED sys

\* return from perform_combat through one of the exit blocks
Return(e) == unit' = e.us /\ results' = e.results /\ pc' = "done"

\* an exception propagates out of the call: no exit block runs
Raise(us) == unit' = us /\ results' = results /\ pc' = "raised"

\* go on to the next stage of perform_combat
Continue(us, res, stage) == unit' = us /\ results' = res /\ pc' = stage

\* after a strike of the first striker: exit block early if the target is
\* dead, else late (late = 0: no exit, go on to the counter stage)
AfterFirst(r, early, late) ==
    /\ strikes' = IF r.struck THEN Append(strikes, r.result) ELSE strikes
    /\ IF r.err THEN Raise(r.us)
       ELSE IF is_dead(r.us[Second])
       THEN Return(ExitBlock(r.us, AppendFirst(results, r.result, swap_roles), swap_roles,
                             call.attacker, call.defender, early, sys))
       ELSE IF late = 0
       THEN Continue(r.us, AppendFirst(results, r.result, swap_roles), "counter")
       ELSE Return(ExitBlock(r.us, AppendFirst(results, r.result, swap_roles), swap_roles,
                             call.attacker, call.defender, late, sys))

\* after a strike of the second striker, likewise (late = 0: go on to the follow-up stage)
AfterSecond(r, early, late) ==
    /\ strikes' = IF r.struck THEN Append(strikes, r.result) ELSE strikes
    /\ IF r.err THEN Raise(r.us)
       ELSE IF is_dead(r.us[First])
       THEN Return(ExitBlock(r.us, AppendSecond(results, r.result, swap_roles), swap_roles,
                             call.attacker, call.defender, early, sys))
       ELSE IF late = 0
       THEN Continue(r.us, AppendSecond(results, r.result, swap_roles), "follow")
       ELSE Return(ExitBlock(r.us, AppendSecond(results, r.result, swap_roles), swap_roles,
                             call.attacker, call.defender, late, sys))

\* the first strike and the exit taken when it kills
FirstStrike(rl) ==
    /\ pc = "first"
    /\ AfterFirst(perform_attack(unit, First, Second, rl[1], rl[2], sys), 1, 0)
    /\ UNCHANGED <<sys, call, swap_roles, can_counter, start, ncalls>>

\* the counter stage when can_counter holds, and the exit taken when it kills
CounterStrike(rl) ==
    /\ pc = "counter"
    /\ CanCounter(unit[First], unit[Second], sys)
    /\ can_counter' = TRUE
    /\ AfterSecond(perform_attack(unit, Second, First, rl[1], rl[2], sys), 2, 0)
    /\ UNCHANGED <<sys, call, swap_roles, start, ncalls>>

\* the counter stage when can_counter is false: no strike
CounterSkip ==
    /\ pc = "counter"
    /\ ~CanCounter(unit[First], unit[Second], sys)
    /\ can_counter' = FALSE
    /\ pc' = "follow"
    /\ UNCHANGED <<unit, sys, call, swap_roles, results, strikes, start, ncalls>>

\* the branch of the follow-up stage: "first", "second" or "none"
FollowUpSecondFirst(us, fst, sec, cc, sy) ==
    IF cc /\ FollowUpEligible(us[sec], us[fst], sy) THEN "second"
    ELSE IF FollowUpEligible(us[fst], us[sec], sy) THEN "first"
    ELSE "none"
FollowUpNoCounterGate(us, fst, sec, cc, sy) ==
    IF FollowUpEligible(us[fst], us[sec], sy) THEN "first"
    ELSE IF FollowUpEligible(us[sec], us[fst], sy) THEN "second"
    ELSE "none"
FollowUpBranch(us, fst, sec, cc, sy) ==
    IF FollowUpEligible(us[fst], us[sec], sy) THEN "first"
    ELSE IF cc /\ FollowUpEligible(us[sec], us[fst], sy) THEN "second"
    ELSE "none"

\* the follow-up of the first striker, then exit 3 or the final block
FollowUpFirst(rl) ==
    /\ pc = "follow"
    /\ FollowUpBranch(unit, First, Second, can_counter, sys) = "first"
    /\ AfterFirst(perform_attack(unit, First, Second, rl[1], rl[2], sys), 3, 5)
    /\ UNCHANGED <<sys, call, swap_roles, can_counter, start, ncalls>>

\* the follow-up of the second striker (elif branch), then exit 4 or the final block
FollowUpSecond(rl) ==
    /\ pc = "follow"
    /\ FollowUpBranch(unit, First, Second, can_counter, sys) = "second"
    /\ AfterSecond(perform_attack(unit, Second, First, rl[1], rl[2], sys), 4, 5)
    /\ UNCHANGED <<sys, call, swap_roles, can_counter, start, ncalls>>

\* no follow-up: straight to the final block
FollowUpNone ==
    /\ pc = "follow"
    /\ FollowUpBranch(unit, First, Second, can_counter, sys) = "none"
    /\ Return(ExitBlock(unit, results, swap_roles, call.attacker, call.defender, 5, sys))
    /\ UNCHANGED <<sys, call, swap_roles, can_counter, strikes, start, ncalls>>

\* Unit.get_capture_battle_stats
get_capture_battle_stats(u) == [skill |-> FloorDiv(u.skill, 2), speed |-> FloorDiv(u.speed, 2)]

\* perform_capture_attack after the strike: skill and speed restored
CaptureReturn(r, a, original_skill, original_speed) ==
    /\ unit' = IF r.err THEN r.us
               ELSE [r.us EXCEPT ![a].skill = original_skill, ![a].speed = original_speed]
    /\ strikes' = IF r.struck THEN <<r.result>> ELSE <<>>
    /\ pc' = IF r.err THEN "capture_raised" ELSE "captured"

\* CombatSystem.perform_capture_attack, the whole call
CaptureAttack(a, d, rl) ==
    /\ Callable
    /\ a # d /\ ~is_dead(unit[a]) /\ ~is_dead(unit[d])
    /\ CaptureReturn(perform_attack([unit EXCEPT ![a].skill = get_capture_battle_stats(unit[a]).skill,
                                                 ![a].speed = get_capture_battle_stats(unit[a]).speed],
                                    a, d, rl[1], rl[2], [enh |-> FALSE, sup |-> FALSE]),
                     a, unit[a].skill, unit[a].speed)
    /\ call' = [attacker |-> a, defender |-> d]
    /\ swap_roles' = FALSE
    /\ can_counter' = FALSE
    /\ results' = EmptyResults
    /\ start' = unit
    /\ ncalls' = ncalls + 1
    /\ UNCHANGED sys

Next ==
    \/ \E a \in Units : Begin(a, Other(a))
    \/ \E rl \in Rolls : FirstStrike(rl)
    \/ \E rl \in Rolls : CounterStrike(rl)
    \/ CounterSkip
    \/ \E rl \in Rolls : FollowUpFirst(rl)
    \/ \E rl \in Rolls : FollowUpSecond(rl)
    \/ FollowUpNone
    \/ \E a \in Units, rl \in Rolls : CaptureAttack(a, Other(a), rl)

Spec == Init /\ [][Next]_vars

TypeOK ==
    /\ pc \in {"idle", "first", "counter", "follow", "done", "captured", "raised", "capture_raised", "struck"}
    /\ ncalls \in 0..MaxCalls

\* ------------------------------------------------------- shared vocabulary
InCombat == pc \in {"first", "counter", "follow"}
Returned == pc = "done"

\* strikes of the running / returned call performed by unit i
StrikesBy(i) == {k \in 1..Len(strikes) : strikes[k].by = i}
LandedBy(i) == {k \in StrikesBy(i) : strikes[k].hit}
Recorded == Len(results.attacker_results) + Len(results.defender_results)
LastStrike == strikes[Len(strikes)]

\* some skill fired in the returned encounter
SomeSkillFired ==
    results.activated_skills.attacker # <<>> \/ results.activated_skills.defender # <<>>

\* ---------------------------------------------------------------------- C1
\* C1: when perform_combat has returned, on whichever exit, both units have an
\* empty active_skills list and an empty temp_stat_modifiers map, and no skill
\* of either roster is still flagged is_active.
C1_CleanAfterReturn ==
    Returned =>
        \A i \in Units :
            /\ unit[i].active_skills = <<>>
            /\ unit[i].temp_stat_modifiers = {}
            /\ \A j \in 1..Len(unit[i].skills) : ~unit[i].skills[j].is_active

\* a lethal follow-up of the second striker, after skills fired on both sides
C1_Witness ==
    /\ Returned
    /\ Len(strikes) = 3 /\ LastStrike.killed /\ LastStrike.by = Second
    /\ results.activated_skills.attacker # <<>>
    /\ results.activated_skills.defender # <<>>

\* ---------------------------------------------------------------------- C2
\* C2: in the returned outcome every result in attacker_results was struck by
\* the caller's attacker and every result in defender_results by the caller's
\* defender.
C2_BucketsMatchCaller ==
    Returned =>
        /\ \A k \in 1..Len(results.attacker_results) :
              results.attacker_results[k].by = call.attacker
        /\ \A k \in 1..Len(results.defender_results) :
              results.defender_results[k].by = call.defender

\* ---------------------------------------------------------------------- C3
\* C3: a unit at 0 hp ends the encounter at once: no stage of perform_combat
\* is entered with a dead unit, only the last strike of a call can have killed,
\* every strike performed is recorded, and a lethal first strike leaves
\* exactly one result in the outcome.
C3_LethalShortCircuit ==
    /\ (\E i \in Units : unit[i].current_hp <= 0) => ~InCombat
    /\ \A k \in 1..Len(strikes) : strikes[k].killed => k = Len(strikes)
    /\ Returned => Recorded = Len(strikes)
    /\ (Returned /\ strikes[1].killed) => Recorded = 1

\* the first strike killed and the outcome holds that one result
C3_Witness ==
    /\ Returned /\ strikes[1].killed /\ Recorded = 1
    /\ unit[strikes[1].target].current_hp = 0

\* ---------------------------------------------------------------------- C4
\* C4: at every point of a call, each armed unit's weapon has lost exactly as
\* many uses as that unit has landed strikes (hit = TRUE) in the call; a
\* landed multi-hit strike counts once, a miss counts nothing.
C4_DurabilityCountsLandedStrikes ==
    \A i \in Units :
        unit[i].equipped_weapon.present =>
            start[i].equipped_weapon.durability - unit[i].equipped_weapon.durability
                = Cardinality(LandedBy(i))

\* one unit both missed and landed a multi-hit strike that killed
C4_Witness ==
    /\ Returned
    /\ \E i \in Units :
          /\ unit[i].equipped_weapon.present
          /\ \E k \in StrikesBy(i) : ~strikes[k].hit
          /\ \E k \in StrikesBy(i) :
                strikes[k].hit /\ strikes[k].attack_count > 1 /\ strikes[k].killed

\* ---------------------------------------------------------------------- C5
\* C5: no weapon's durability is ever negative.
C5_DurabilityNonNegative ==
    \A i \in Units : unit[i].equipped_weapon.durability >= 0

\* ---------------------------------------------------------------------- C6
\* C6: both units' current_hp stays within 0..max_hp in every state.
C6_HpInRange ==
    \A i \in Units : 0 <= unit[i].current_hp /\ unit[i].current_hp <= unit[i].max_hp

\* a critical or multi-hit strike overkilled its target (floor at 0) and the
\* striker, wounded when the call began, was healed up to max_hp (cap)
C6_Witness ==
    \E k \in 1..Len(strikes) :
        /\ strikes[k].hit /\ (strikes[k].critical \/ strikes[k].multi_attack)
        /\ strikes[k].damage > start[strikes[k].target].current_hp
        /\ unit[strikes[k].target].current_hp = 0
        /\ start[strikes[k].by].current_hp < start[strikes[k].by].max_hp
        /\ unit[strikes[k].by].current_hp = unit[strikes[k].by].max_hp

\* ------------------------------------------------- follow-up and counter
\* the step records exactly one more strike, performed by unit i
StruckBy(i) ==
    /\ Len(strikes') = Len(strikes) + 1
    /\ SubSeq(strikes', 1, Len(strikes)) = strikes
    /\ strikes'[Len(strikes')].by = i

\* unit i is at least 4 attack speed ahead of unit j
SpeedMargin(i, j) == get_attack_speed(unit[i]) >= get_attack_speed(unit[j]) + 4

\* unit i holds a guaranteed-follow-up / guaranteed-counter effect: an active
\* skill of that type, or (enhanced) an equipped special item granting it
HoldsFollowUp(i) ==
    ActiveFlag(unit[i], "FOLLOW_UP") \/ (sys.enh /\ ItemFlag(unit[i], "follow_up"))
HoldsCounter(i) ==
    ActiveFlag(unit[i], "COUNTER_ATTACK") \/ (sys.enh /\ ItemFlag(unit[i], "counter_attack"))

FollowUpQualified(i, j) == SpeedMargin(i, j) \/ HoldsFollowUp(i)

\* unit i is armed and its weapon's range covers the distance to unit j
InRange(i, j) ==
    /\ unit[i].equipped_weapon.present
    /\ unit[i].equipped_weapon.range_min <= Distance(unit[i], unit[j])
    /\ Distance(unit[i], unit[j]) <= unit[i].equipped_weapon.range_max

\* ---------------------------------------------------------------------- C7
\* C7: an encounter holds at most three strikes, at most two by either side
\* and never two by both; and when both sides qualify for a follow-up, the
\* follow-up stage is a strike of the side that struck first.
C7_Counts ==
    /\ Len(strikes) <= 3
    /\ \A i \in Units : Cardinality(StrikesBy(i)) <= 2
    /\ \E i \in Units : Cardinality(StrikesBy(i)) <= 1

C7_Step ==
    (pc = "follow" /\ FollowUpQualified(First, Second) /\ FollowUpQualified(Second, First))
        => StruckBy(First)

C7_OneFollowUp == []C7_Counts /\ [][C7_Step]_vars

\* the second striker countered and holds an item follow-up, the first striker
\* has the speed margin, and the third strike was the first striker's
C7_Witness ==
    /\ Returned /\ can_counter /\ Len(strikes) = 3
    /\ sys.enh /\ ItemFlag(unit[Second], "follow_up")
    /\ SpeedMargin(First, Second)
    /\ strikes[3].by = First /\ strikes[2].by = Second

\* ---------------------------------------------------------------------- C8
\* C8: at the follow-up stage (both alive after the counter stage) the first
\* striker strikes again exactly when it has the speed margin or holds a
\* guaranteed-follow-up effect; the second striker strikes again exactly when
\* the first striker does not qualify, the second striker countered, and the
\* second striker has the speed margin or a guaranteed-follow-up effect.
C8_Step ==
    pc = "follow" =>
        /\ StruckBy(First) <=> FollowUpQualified(First, Second)
        /\ StruckBy(Second) <=>
              /\ ~FollowUpQualified(First, Second)
              /\ StrikesBy(Second) # {}
              /\ FollowUpQualified(Second, First)

C8_FollowUpExactly == [][C8_Step]_vars

\* a follow-up earned by a margin of exactly 4, with no guaranteed effect
C8_Witness ==
    /\ Returned /\ Len(strikes) >= 2
    /\ LastStrike.by = strikes[1].by
    /\ get_attack_speed(unit[First]) = get_attack_speed(unit[Second]) + 4
    /\ ~(sys.enh /\ ItemFlag(unit[First], "follow_up"))
    /\ \A j \in 1..Len(unit[First].skills) : unit[First].skills[j].effect_type # "FOLLOW_UP"

\* ---------------------------------------------------------------------- C9
\* C9: at the counter stage an unarmed second striker never strikes, and an
\* armed second striker holding a guaranteed-counter effect strikes whatever
\* the distance.
C9_Step ==
    pc = "counter" =>
        /\ ~unit[Second].equipped_weapon.present => ~StruckBy(Second)
        /\ (unit[Second].equipped_weapon.present /\ HoldsCounter(Second)) => StruckBy(Second)

C9_CounterNeedsWeapon == [][C9_Step]_vars

\* ---------------------------------------------------------------------- C10
\* C10: a second striker that is unarmed or out of range, and holds no
\* guaranteed-counter effect, does not strike at the counter stage; the call
\* goes on, records no strike of that side at all, and returns an outcome
\* holding the first striker's strikes only.
C10_State ==
    (pc \in {"follow", "done"} /\ ~can_counter) =>
        /\ StrikesBy(Second) = {}
        /\ Returned => (Recorded = Len(strikes) /\ Len(strikes) \in {1, 2})

C10_Step ==
    /\ (pc = "counter" /\ ~InRange(Second, First) /\ ~HoldsCounter(Second))
          => (strikes' = strikes /\ pc' = "follow" /\ ~can_counter')
    /\ (pc = "follow" /\ ~can_counter) => (pc' = "done" /\ ~StruckBy(Second))

C10_NoCounterOutOfRange == []C10_State /\ [][C10_Step]_vars

\* an armed second striker out of range, fast enough to double, never struck
C10_Witness ==
    /\ Returned /\ ~can_counter
    /\ unit[Second].equipped_weapon.present /\ ~InRange(Second, First)
    /\ SpeedMargin(Second, First)
    /\ StrikesBy(Second) = {}

\* ------------------------------------------------------------ initiative
\* the units the running / returned call of perform_combat was made with
CallerAttacker == start[call.attacker]
CallerDefender == start[call.defender]
InEncounter == pc \in {"first", "counter", "follow", "done"}

\* the hp-threshold check of a vantage effect: current hp against n percent of max hp
HpCheck(u, op, n) ==
    CASE op = "<"  -> u.current_hp * 100 <  n * u.max_hp
      [] op = "<=" -> u.current_hp * 100 <= n * u.max_hp
      [] op = ">"  -> u.current_hp * 100 >  n * u.max_hp
      [] op = ">=" -> u.current_hp * 100 >= n * u.max_hp
      [] OTHER -> FALSE

\* u holds a vantage skill whose hp condition holds
TriggeredSkillVantage(u) ==
    \E j \in 1..Len(u.skills) :
        /\ u.skills[j].trigger_type = "HP_THRESHOLD"
        /\ u.skills[j].effect_value.vantage
        /\ HpCheck(u, u.skills[j].trigger_value.op, u.skills[j].trigger_value.n)

\* u is equipped with a special item that carries a vantage effect
CarriesItemVantage(u) ==
    /\ u.equipped_weapon.present /\ u.equipped_weapon.legendary
    /\ \E k \in 1..Len(u.equipped_weapon.effects) : u.equipped_weapon.effects[k].effect_value.vantage

\* the hp condition of vantage (skills.py: "HP < 50%") for the holder of an item
ItemHpCheck(u) == HpCheck(u, Vantage.trigger_value.op, Vantage.trigger_value.n)

\* u holds an initiative-swap effect whose hp-threshold condition holds
TriggeredVantage(u) ==
    TriggeredSkillVantage(u) \/ (sys.enh /\ CarriesItemVantage(u) /\ ItemHpCheck(u))

\* C11: the caller's defender strikes first if and only if it holds a vantage
\* effect whose hp-threshold condition holds at encounter start and the attacker
\* holds no such effect; otherwise the caller's attacker strikes first; the order
\* is the same in every state of the encounter and the first strike follows it.
C11_VantageOrder ==
    InEncounter =>
        /\ swap_roles = (TriggeredVantage(CallerDefender) /\ ~TriggeredVantage(CallerAttacker))
        /\ strikes # <<>> =>
              strikes[1].by = IF TriggeredVantage(CallerDefender) /\ ~TriggeredVantage(CallerAttacker)
                              THEN call.defender ELSE call.attacker

\* the same statement for the encounters CombatSystem resolves (no items consulted)
C11_BaseVantageOrder == ~sys.enh => C11_VantageOrder

C11_BaseSwapped ==
    /\ pc = "done" /\ ~sys.enh /\ swap_roles
    /\ strikes[1].by = call.defender

\* C12: in the item-aware resolve, a vantage effect of an equipped special item
\* counts for its holder only when the hp-threshold check holds for the holder at
\* encounter start: an item vantage on a holder whose hp condition does not hold
\* neither causes a role swap (holder defends) nor blocks one (holder attacks).
C12_ItemVantageGated ==
    InEncounter /\ sys.enh =>
        /\ (/\ CarriesItemVantage(CallerDefender) /\ ~ItemHpCheck(CallerDefender)
            /\ ~TriggeredSkillVantage(CallerDefender)) => ~swap_roles
        /\ (/\ CarriesItemVantage(CallerAttacker) /\ ~ItemHpCheck(CallerAttacker)
            /\ ~TriggeredSkillVantage(CallerAttacker)
            /\ TriggeredSkillVantage(CallerDefender)) => swap_roles

\* --------------------------------------------------- the calculators alone
\* A second state machine over the same variables: two units drawn from a
\* broad set of stats, weapons, terrain, rosters and supports; the activation
\* step of perform_attack, the three calculators of both systems, and single
\* strikes are applied to them.  Here results[a] holds what the calculators
\* returned for striker a against the other unit ("none" before the call).
Killer    == Skill("killer", "ON_ATTACK", "CRITICAL_BOOST", NoTV, IntEV(95), -1)
Aim       == Skill("aim", "ON_ATTACK", "HIT_BOOST", NoTV, IntEV(30), -1)
Dodge     == Skill("dodge", "ON_ATTACK", "AVOID_BOOST", NoTV, IntEV(40), -1)
Guard     == Skill("guard", "ON_ATTACK", "DAMAGE_REDUCE", NoTV, FloatEV(150), -1)
Luna      == Skill("luna", "ON_ATTACK", "SPECIAL_ATTACK", NoTV, PierceEV(50), -1)

SteelLance == Weapon("LANCE", 7, 75, 0, 6, 1, 1, 3)
Fire       == Weapon("MAGIC", 5, 90, 0, 2, 1, 2, 3)
Aegis      == LegendaryWeapon("AXE", 9, 70, 5, 4, 1, 1, 3,
                  <<ItemEffect("hit_boost", ValueEV(40)), ItemEffect("damage_boost", ValueEV(3)),
                    ItemEffect("critical_boost", ValueEV(100)), ItemEffect("damage_reduce", ValueEV(50))>>)
CalcWeapons == {NoWeapon, IronSword, SteelLance, HandAxe, Bow, Fire, Aegis}

\* strength 10 with might 5; hit 90 + 2 * 2 + 2 \div 2 = 95
FixtureAttacker == Stats(20, 10, 4, 2, 6, 2, 3, 1)
\* defense 3; avoid 2 * 8 + 4 = 20
FixtureDefender == Stats(20, 6, 0, 3, 8, 4, 3, 7)
Ace  == Stats(20, 15, 12, 20, 15, 10, 2, 2)
Tank == Stats(30, 2, 1, 0, 20, 40, 25, 25)

\* the stats and the skill rosters of the two units
CalcStats == {<<FixtureAttacker, FixtureDefender>>, <<Ace, Tank>>, <<Ace, FixtureDefender>>}
CalcRosters == {<<<<>>, <<>>>>, <<<<Killer, Aim, Luna>>, <<Dodge, Guard>>>>}

NoCalc == [done |-> FALSE]

CalcInit ==
    /\ \E st \in CalcStats, w1 \in CalcWeapons, w2 \in CalcWeapons,
          r \in CalcRosters, t2 \in {"PLAIN", "FOREST"} :
          unit = [i \in Units |->
                    IF i = 1 THEN MkUnit(st[1], st[1].max_hp, w1, r[1], 0, 0, "PLAIN", SupportC)
                    ELSE MkUnit(st[2], st[2].max_hp, w2, r[2], 1, 0, t2, NoSupport)]
    /\ sys \in Systems
    /\ pc = "idle"
    /\ call = [attacker |-> 1, defender |-> 2]
    /\ swap_roles = FALSE
    /\ can_counter = FALSE
    /\ results = [i \in Units |-> NoCalc]
    /\ strikes = <<>>
    /\ start = unit
    /\ ncalls = 0

\* the head of perform_attack for striker i: its on-attack skills become active
\* (they stay in active_skills for the strikes that follow in the encounter)
ActivateOnAttack(i) ==
    /\ pc = "idle" /\ unit[i].active_skills = <<>>
    /\ results = [j \in Units |-> NoCalc]
    /\ unit' = activate_skills(unit, i, "ON_ATTACK", CombatData(TRUE), 1).us
    /\ UNCHANGED <<sys, pc, call, swap_roles, can_counter, results, strikes, start, ncalls>>

\* the values the calculators return for striker ua against ud, with the
\* weapon_bonus locals of calculate_hit_chance and calculate_damage
Calculated(ua, ud, sy) ==
    [done |-> TRUE,
     no_active |-> ua.active_skills = <<>> /\ ud.active_skills = <<>>,
     weapon_bonus_hit |-> TriangleBonus(ua, ud) * 15,
     weapon_bonus_might |-> TriangleBonus(ua, ud) * 1,
     hit_chance |-> calculate_hit_chance(ua, ud),
     damage |-> calculate_damage(ua, ud),
     crit_chance |-> calculate_crit_chance(ua, ud),
     enhanced_hit_chance |-> enhanced_calculate_hit_chance(ua, ud, sy.sup),
     enhanced_damage |-> enhanced_calculate_damage(ua, ud, sy.sup),
     enhanced_crit_chance |-> enhanced_calculate_crit_chance(ua, ud, sy.sup)]

\* calculate_hit_chance, calculate_damage and calculate_crit_chance of both
\* systems, called for striker a
Calculate(a) ==
    /\ pc = "idle" /\ ~results[a].done
    /\ results' = [results EXCEPT ![a] = Calculated(unit[a], unit[Other(a)], sys)]
    /\ UNCHANGED <<unit, sys, pc, call, swap_roles, can_counter, strikes, start, ncalls>>

\* one perform_attack of the resolving system
Strike(a, rl) ==
    /\ pc = "idle" /\ results = [j \in Units |-> NoCalc]
    /\ unit' = perform_attack(unit, a, Other(a), rl[1], rl[2], sys).us
    /\ strikes' = <<perform_attack(unit, a, Other(a), rl[1], rl[2], sys).result>>
    /\ pc' = "struck"
    /\ UNCHANGED <<sys, call, swap_roles, can_counter, results, start, ncalls>>

CalcNext ==
    \/ \E i \in Units : ActivateOnAttack(i)
    \/ \E a \in Units : Calculate(a)
    \/ \E a \in Units, rl \in Rolls : Strike(a, rl)

CalcSpec == CalcInit /\ [][CalcNext]_vars

\* the weapon category of a unit ("NONE" when unarmed), and the matchup value
\* of the cycle blade > axe > polearm > blade
Category(u) == IF u.equipped_weapon.present THEN u.equipped_weapon.weapon_type ELSE "NONE"
Beats == {<<"SWORD", "AXE">>, <<"AXE", "LANCE">>, <<"LANCE", "SWORD">>}
Matchup(a, d) == IF <<a, d>> \in Beats THEN 1 ELSE IF <<d, a>> \in Beats THEN -1 ELSE 0

BothCalculated == pc = "idle" /\ results[1].done /\ results[2].done

\* C13: weapon matchup is antisymmetric: the matchup hit and might bonus of A
\* attacking B are the negatives of those of B attacking A, +15 / +1 on a
\* favourable edge of blade > axe > polearm > blade, -15 / -1 on the reverse
\* edge, and 0 for equal categories, bow, arcane, or an unarmed unit.
C13_MatchupAntisymmetric ==
    BothCalculated =>
        /\ results[1].weapon_bonus_hit = -results[2].weapon_bonus_hit
        /\ results[1].weapon_bonus_might = -results[2].weapon_bonus_might
        /\ results[1].weapon_bonus_hit = 15 * Matchup(Category(unit[1]), Category(unit[2]))
        /\ results[1].weapon_bonus_might = Matchup(Category(unit[1]), Category(unit[2]))

C13_Witness ==
    /\ BothCalculated
    /\ Category(unit[1]) = "SWORD" /\ Category(unit[2]) = "AXE"
    /\ results[1].weapon_bonus_hit = 15 /\ results[2].weapon_bonus_hit = -15
    /\ results[1].weapon_bonus_might = 1 /\ results[2].weapon_bonus_might = -1

\* C14: calculate_hit_chance and calculate_crit_chance return an integer in
\* [0,100] and calculate_damage an integer >= 0, in CombatSystem and in
\* EnhancedCombatSystem, whatever the stats, weapons, terrain, active skills,
\* item effects and support bonuses; the hit_chance and crit_chance stored in a
\* strike result are in [0,100].
C14_ClampedNumbers ==
    /\ \A a \in Units : results[a].done =>
          /\ results[a].hit_chance \in 0..100 /\ results[a].enhanced_hit_chance \in 0..100
          /\ results[a].crit_chance \in 0..100 /\ results[a].enhanced_crit_chance \in 0..100
          /\ results[a].damage \in Nat /\ results[a].enhanced_damage \in Nat
    /\ \A k \in 1..Len(strikes) :
          strikes[k].hit_chance \in 0..100 /\ strikes[k].crit_chance \in 0..100

\* the sums before clamping leave the range on both sides
C14_Witness ==
    /\ BothCalculated
    /\ HitChanceRaw(unit[1], unit[2]) > 100 /\ results[1].hit_chance = 100
    /\ DamageRaw(unit[2], unit[1]) < 0 /\ results[2].damage = 0

\* C15: with no active skills on either unit, calculate_damage is
\* max(0, A + matchup - D - terrain_defense) and calculate_hit_chance is
\* clamp[0,100](H + 15 * matchup - (2 * speed_def + luck_def) - terrain_dodge),
\* with A = (magic if arcane else strength) + might, H = hit + 2 * skill +
\* floor(luck / 2), D = resistance if arcane else defense, A = H = 0 unarmed.
PowerA(u) ==
    IF Category(u) = "NONE" THEN 0
    ELSE (IF Category(u) = "MAGIC" THEN u.magic ELSE u.strength) + u.equipped_weapon.might
AccuracyH(u) ==
    IF Category(u) = "NONE" THEN 0
    ELSE u.equipped_weapon.hit + 2 * u.skill + (u.luck \div 2)
GuardD(ua, ud) == IF Category(ua) = "MAGIC" THEN ud.resistance ELSE ud.defense

C15_PlainFormulas ==
    \A a \in Units : (pc = "idle" /\ results[a].done /\ results[a].no_active) =>
        LET ua == unit[a]
            ud == unit[Other(a)]
            m == Matchup(Category(ua), Category(ud))
        IN /\ results[a].damage =
                 Max(0, PowerA(ua) + m - GuardD(ua, ud) - TerrainDefense(ud.terrain))
           /\ results[a].hit_chance =
                 Max(0, Min(100, AccuracyH(ua) + 15 * m - (2 * ud.speed + ud.luck)
                                    - TerrainDodge(ud.terrain)))

\* the fixture: power 10, might 5, defense 3, terrain 0 gives 12; hit 95 against avoid 20 gives 75
C15_Witness ==
    /\ pc = "idle" /\ results[1].done /\ results[1].no_active
    /\ unit[1].strength = 10 /\ unit[1].equipped_weapon.might = 5 /\ Category(unit[1]) = "SWORD"
    /\ unit[2].defense = 3 /\ unit[2].terrain = "PLAIN" /\ Category(unit[2]) = "BOW"
    /\ AccuracyH(unit[1]) = 95 /\ 2 * unit[2].speed + unit[2].luck = 20
    /\ results[1].damage = 12 /\ results[1].hit_chance = 75

\* ------------------------------------------------------------ termination
\* number of strike results in the outcome
OutcomeSize == Len(results.attacker_results) + Len(results.defender_results)

\* stages of perform_combat still ahead of a position
Rank(p) == CASE p = "first" -> 3 [] p = "counter" -> 2 [] p = "follow" -> 1 [] OTHER -> 0

\* C16: every call to perform_combat reaches a terminal branch and returns an
\* outcome (no call is left by an exception, and every step of a call moves it
\* to a later stage), and the outcome holds at least 1 and at most 4 strike
\* results.
C16_EveryCallReturns ==
    /\ [](pc # "raised")
    /\ [][InCombat => Rank(pc') < Rank(pc)]_vars
    /\ [](Returned => (1 <= OutcomeSize /\ OutcomeSize <= 4))

\* what holds of every call, raised or not: it moves on at every step, and a
\* returned outcome holds 1 to 3 results
C16_CallsEnd ==
    /\ [][InCombat => Rank(pc') < Rank(pc)]_vars
    /\ [](Returned => (1 <= OutcomeSize /\ OutcomeSize <= 3))

C16_ThreeStrikes == Returned /\ OutcomeSize = 3

\* ---------------------------------------------------------- malformed data
\* a combatant of the running / finished call holds a skill whose payload is
\* malformed for its effect kind: a boost or a heal without a number
Malformed(s) ==
    /\ s.effect_type \in {"DAMAGE_BOOST", "DAMAGE_REDUCE", "HIT_BOOST", "AVOID_BOOST",
                          "CRITICAL_BOOST", "HEAL"}
    /\ s.effect_value.kind \in {"none", "dict", "tuple"}
HoldsMalformed(u) == \E j \in 1..Len(u.skills) : Malformed(u.skills[j])

\* C17: when an activated skill carries a malformed payload only that skill
\* application is skipped: perform_combat still runs to a terminal branch and
\* returns (it is never left by an exception), and once it is over both
\* combatants' active-skill lists and stat-modifier maps are empty.
C17_MalformedSkipped ==
    (HoldsMalformed(CallerAttacker) \/ HoldsMalformed(CallerDefender)) =>
        /\ pc # "raised"
        /\ pc \in {"done", "raised"} =>
              \A i \in Units : unit[i].active_skills = <<>> /\ unit[i].temp_stat_modifiers = {}

\* ---------------------------------------------------------- special items
\* the permanent skill roster of a unit, by skill name
RosterNames(u) == [j \in 1..Len(u.skills) |-> u.skills[j].name]

\* C18: after the item-aware perform_combat returns for a combatant equipped
\* with a special item, its permanent skill roster is exactly the roster it had
\* before the call (no item-granted skill is left or accumulates) and the
\* item's stat effects are undone.
C18_RosterRestored ==
    (Returned /\ sys.enh) =>
        \A i \in Units : (start[i].equipped_weapon.present /\ start[i].equipped_weapon.legendary) =>
            /\ RosterNames(unit[i]) = RosterNames(start[i])
            /\ unit[i].temp_stat_modifiers = {}

\* the stat effects of an item were applied and are undone at the return
C18_StatEffectsUndone ==
    (Returned /\ sys.enh) => \A i \in Units : unit[i].temp_stat_modifiers = {}

\* granted skills pile up in the roster over strikes and encounters
C18_Accumulated ==
    /\ Returned /\ sys.enh /\ unit[2].equipped_weapon.legendary
    /\ Len(unit[2].skills) >= 2
    /\ \A j \in 1..Len(unit[2].skills) : unit[2].skills[j].name = "focus"

\* ------------------------------------------------------- strike triggers
\* position j of unit u's roster is in its active_skills list
Listed(u, j) == \E k \in 1..Len(u.active_skills) : u.active_skills[k] = j

\* a step of perform_combat that carries out a strike and does not end the call
StrikeStep == InCombat /\ pc' \in {"counter", "follow"} /\ Len(strikes') = Len(strikes) + 1
\* the result of that strike
NewStrike == strikes'[Len(strikes')]

\* C19: in every strike the struck unit's on-defend skills are activated (like
\* the striker's on-attack skills) before the numbers of the strike are
\* computed, so an on-defend skill of the struck unit is active for that strike.
C19_Step ==
    StrikeStep =>
        /\ \A j \in 1..Len(unit[NewStrike.by].skills) :
              unit[NewStrike.by].skills[j].trigger_type = "ON_ATTACK"
                  => Listed(unit'[NewStrike.by], j)
        /\ \A j \in 1..Len(unit[NewStrike.target].skills) :
              unit[NewStrike.target].skills[j].trigger_type = "ON_DEFEND"
                  => Listed(unit'[NewStrike.target], j)
C19_OnDefendActive == [][C19_Step]_vars

\* the on-attack half alone
C19_OnAttackStep ==
    StrikeStep =>
        \A j \in 1..Len(unit[NewStrike.by].skills) :
            unit[NewStrike.by].skills[j].trigger_type = "ON_ATTACK"
                => Listed(unit'[NewStrike.by], j)
C19_OnAttackActive == [][C19_OnAttackStep]_vars

\* C20: a stat-boost activated by an on-attack trigger adds its amount to the
\* holder's transient per-stat modifier map, and the numbers of that strike use
\* the boosted stat: a +n strength boost raises the computed damage of a plain
\* landed strike by n.
C20_Step ==
    StrikeStep =>
        \A j \in 1..Len(unit[NewStrike.by].skills) :
            LET sk == unit[NewStrike.by].skills[j]
                ua == unit[NewStrike.by]
                ud == unit[NewStrike.target]
            IN (sk.trigger_type = "ON_ATTACK" /\ sk.effect_type = "STAT_BOOST"
                  /\ sk.effect_value.stat = "strength") =>
                 /\ \E p \in unit'[NewStrike.by].temp_stat_modifiers :
                       p[1] = "strength" /\ p[2] >= sk.effect_value.n
                 /\ (/\ ~sys.enh /\ Len(ua.skills) = 1 /\ ud.active_skills = <<>>
                     /\ Category(ua) \notin {"NONE", "MAGIC"}
                     /\ NewStrike.hit /\ ~NewStrike.critical) =>
                        NewStrike.damage =
                            Max(0, PowerA(ua) + sk.effect_value.n
                                     + Matchup(Category(ua), Category(ud))
                                     - GuardD(ua, ud) - TerrainDefense(ud.terrain))
C20_StatBoostUsed == [][C20_Step]_vars

\* ------------------------------------------------ triggers after the damage
\* a step of perform_combat that carries out a strike and ends the call
LastStrikeStep == InCombat /\ pc' = "done" /\ Len(strikes') = Len(strikes) + 1
\* the activated-skill snapshot of the outcome for the side unit i fought on
SnapshotOf(res, i) ==
    IF i = call.attacker THEN res.activated_skills.attacker ELSE res.activated_skills.defender
InSnapshot(res, i, nm) == \E k \in 1..Len(SnapshotOf(res, i)) : SnapshotOf(res, i)[k] = nm

\* the on-kill half: after a strike that kills, the striker's on-kill skills
\* are activated (they are in the outcome's snapshot of the striker's side)
C21_OnKillStep ==
    (LastStrikeStep /\ NewStrike.killed) =>
        \A j \in 1..Len(unit[NewStrike.by].skills) :
            unit[NewStrike.by].skills[j].trigger_type = "ON_KILL"
                => InSnapshot(results', NewStrike.by, unit[NewStrike.by].skills[j].name)
C21_OnKillActive == [][C21_OnKillStep]_vars

\* the on-damage-taken half: after a strike that lands with damage > 0, the
\* on-damage skills of the unit that received the damage are activated
C21_OnDamageStep ==
    (StrikeStep /\ NewStrike.hit /\ NewStrike.damage > 0) =>
        \A j \in 1..Len(unit[NewStrike.target].skills) :
            unit[NewStrike.target].skills[j].trigger_type = "ON_DAMAGE"
                => Listed(unit'[NewStrike.target], j)

\* C21: after a strike that lands and deals damage > 0 the on-damage-taken
\* skills of the unit that received the damage are activated, and after a
\* strike that kills the on-kill skills of the striker are activated, both
\* after the damage of the strike has been applied.
C21_PostDamageTriggers == [][C21_OnDamageStep /\ C21_OnKillStep]_vars

\* ------------------------------------------------------ standing triggers
\* skill s of holder u has a standing trigger kind whose condition holds:
\* always-active, a weapon-category match, or a true hp-threshold comparison
StandingTrigger(s, u) ==
    \/ s.trigger_type = "ALWAYS_ACTIVE"
    \/ s.trigger_type = "WEAPON_TYPE" /\ Category(u) = s.trigger_value.wtype
    \/ s.trigger_type = "HP_THRESHOLD" /\ HpCheck(u, s.trigger_value.op, s.trigger_value.n)

C22_Step ==
    StrikeStep =>
        \A j \in 1..Len(unit[NewStrike.by].skills) :
            StandingTrigger(unit[NewStrike.by].skills[j], unit[NewStrike.by])
                => Listed(unit'[NewStrike.by], j)

\* C22: during an encounter a skill whose trigger kind is always-active, or a
\* weapon-category match with the holder's weapon, or an hp-threshold whose
\* comparison is true for the holder, is marked active and applied, so it is in
\* the holder's active-skill list when the numbers of its strikes are computed.
C22_StandingSkillsActive == [][C22_Step]_vars

\* no skill of a standing trigger kind is ever in an active-skill list
C22_NeverListed ==
    \A i \in Units : \A k \in 1..Len(unit[i].active_skills) :
        ActiveSkills(unit[i])[k].trigger_type \notin {"ALWAYS_ACTIVE", "WEAPON_TYPE", "HP_THRESHOLD"}

\* ------------------------------------------- pre- and post-combat triggers
\* a step that enters perform_combat, and a step that returns from it
BeginStep == pc' = "first" /\ ncalls' = ncalls + 1
ExitStep == InCombat /\ pc' = "done"

\* the post-combat half: on return every post-combat skill of each side is in
\* that side's activated-skill snapshot
C23_PostStep ==
    ExitStep =>
        \A i \in {call.attacker, call.defender} : \A j \in 1..Len(unit[i].skills) :
            unit[i].skills[j].trigger_type = "POST_COMBAT"
                => InSnapshot(results', i, unit[i].skills[j].name)

\* the pre-combat half: when the first strike is about to be made every
\* pre-combat skill of each side is in its holder's active-skill list
C23_PreStep ==
    BeginStep =>
        \A i \in Units : \A j \in 1..Len(unit[i].skills) :
            unit[i].skills[j].trigger_type = "PRE_COMBAT" => Listed(unit'[i], j)

\* C23: on every exit of perform_combat each side's post-combat skills are
\* activated and applied before the cleanup and their names are in that side's
\* activated-skill snapshot of the outcome; likewise each side's pre-combat
\* skills are activated before the first strike.
C23_PrePostCombatActive == [][C23_PreStep /\ C23_PostStep]_vars

\* no skill of the pre-combat or post-combat trigger kind is ever in an
\* active-skill list
C23_NeverListed ==
    \A i \in Units : \A k \in 1..Len(unit[i].active_skills) :
        ActiveSkills(unit[i])[k].trigger_type \notin {"PRE_COMBAT", "POST_COMBAT"}

\* ------------------------------------------------------ post-combat context
\* summed damage of the strikes unit i performed in the current call
DamageBy(i) == Sum(SelectSeq(strikes, LAMBDA r : r.by = i))

\* the post-combat context handed to each side agrees with the strikes made
PostContextRight ==
    /\ results.post.attacker.damage_dealt = DamageBy(call.attacker)
    /\ results.post.attacker.damage_received = DamageBy(call.defender)
    /\ results.post.defender.damage_dealt = DamageBy(call.defender)
    /\ results.post.defender.damage_received = DamageBy(call.attacker)

\* C24: on every exit of perform_combat, also with swapped initiative, the
\* post-combat context passed to each side has damage_dealt equal to the summed
\* damage of the strikes that side performed and damage_received equal to the
\* summed damage of the strikes the other side performed.
C24_PostContextSums == Returned => PostContextRight

\* the same without swapped initiative
C24_UnswappedSums == (Returned /\ ~swap_roles) => PostContextRight

\* ---------------------------------------------------------- finite duration
\* a step of perform_combat that carries out a strike
AnyStrikeStep == InCombat /\ Len(strikes') = Len(strikes) + 1

\* skill j of unit u has a finite duration that has run out
Expired(u, j) == u.skills[j].duration > 0 /\ u.skills[j].remaining_duration <= 0

\* the remaining-duration counter of a finite skill is never below 0
C25_CounterNonNegative ==
    \A i \in Units : \A j \in 1..Len(unit[i].skills) :
        unit[i].skills[j].duration > 0 => unit[i].skills[j].remaining_duration >= 0

\* a strike by the holder of an expired on-attack skill does not apply the
\* skill again, and (a plain landed strike, no other on-attack skill held)
\* deals the damage of the plain formula
C25_ExpiredStep ==
    AnyStrikeStep =>
        \A j \in 1..Len(unit[NewStrike.by].skills) :
            LET ua == unit[NewStrike.by]
                ud == unit[NewStrike.target]
            IN (Expired(ua, j) /\ ua.skills[j].trigger_type = "ON_ATTACK") =>
                 /\ unit'[NewStrike.by].skills[j].remaining_duration
                        = ua.skills[j].remaining_duration
                 /\ (/\ ~sys.enh /\ ud.active_skills = <<>>
                     /\ \A k \in 1..Len(ua.skills) :
                           k # j => ua.skills[k].trigger_type # "ON_ATTACK"
                     /\ Category(ua) \notin {"NONE", "MAGIC"}
                     /\ NewStrike.hit /\ ~NewStrike.critical) =>
                        NewStrike.damage =
                            Max(0, PowerA(ua) + Matchup(Category(ua), Category(ud))
                                     - GuardD(ua, ud) - TerrainDefense(ud.terrain))

\* C25: a skill with finite duration d > 0 has its remaining-duration counter
\* decremented by 1 on each application and the counter never drops below 0;
\* once it is 0 the skill is deactivated, is not applied again on later
\* triggers and contributes nothing to the numbers of later strikes.
C25_FiniteDuration == [](C25_CounterNonNegative) /\ [][C25_ExpiredStep]_vars

\* the first half alone: each application lowers the counter by exactly 1 and
\* a counter that is 0 or less leaves the skill unmarked
C25_TickStep ==
    AnyStrikeStep =>
        \A j \in 1..Len(unit[NewStrike.by].skills) :
            LET s == unit[NewStrike.by].skills[j]
                t == unit'[NewStrike.by].skills[j]
            IN (s.duration > 0 /\ s.trigger_type = "ON_ATTACK") =>
                 /\ t.remaining_duration = s.remaining_duration - 1
                 /\ (pc' # "done" /\ t.remaining_duration <= 0) => ~t.is_active
C25_TickOnEachApplication == [][C25_TickStep]_vars

\* ------------------------------------------- calculators with a provider
\* the calculators were called for striker a with a support provider, and
\* neither unit carries a special item
ProviderCalculated(a) ==
    /\ pc = "idle" /\ results[a].done /\ sys.sup
    /\ ~HasLegendary(unit[a]) /\ ~HasLegendary(unit[Other(a)])

\* C26: with a proximity provider the enhanced calculate_hit_chance is
\* clamp[0,100](S_hit + attacker hit bonus - defender avoid bonus) and the
\* enhanced calculate_damage is max(0, S_dmg + attacker damage bonus -
\* defender defense bonus), S_hit and S_dmg being the unclamped sums of the
\* plain calculators: the base sum is not clamped before the bonus is added.
C26_BonusBeforeClamp ==
    \A a \in Units : ProviderCalculated(a) =>
        LET ua == unit[a]
            ud == unit[Other(a)]
        IN /\ results[a].enhanced_hit_chance =
                 Max(0, Min(100, HitChanceRaw(ua, ud)
                                   + ua.support.hit_bonus - ud.support.avoid_bonus))
           /\ results[a].enhanced_damage =
                 Max(0, DamageRaw(ua, ud)
                          + ua.support.damage_bonus - ud.support.defense_bonus)

\* what the code computes: the bonus is added to the clamped base value and
\* the sum is clamped again
C26_ClampedTwice ==
    \A a \in Units : ProviderCalculated(a) =>
        LET ua == unit[a]
            ud == unit[Other(a)]
        IN /\ results[a].enhanced_hit_chance =
                 Max(0, Min(100, Max(0, Min(100, HitChanceRaw(ua, ud)))
                                   + ua.support.hit_bonus - ud.support.avoid_bonus))
           /\ results[a].enhanced_damage =
                 Max(0, Max(0, DamageRaw(ua, ud))
                          + ua.support.damage_bonus - ud.support.defense_bonus)

\* ------------------------------------------------------------ capture attack
\* perform_capture_attack has returned
CaptureReturned == pc = "captured"

\* the attacker's skill and speed are what they were before the call
C27_StatsRestored ==
    CaptureReturned =>
        /\ unit[call.attacker].skill = start[call.attacker].skill
        /\ unit[call.attacker].speed = start[call.attacker].speed

\* C27: after perform_capture_attack returns, the active-skill lists and the
\* stat-modifier maps of both units are empty, and the attacker's skill and
\* speed equal their values before the call.
C27_CaptureLeavesNothingActive ==
    CaptureReturned =>
        /\ \A i \in Units : unit[i].active_skills = <<>> /\ unit[i].temp_stat_modifiers = {}
        /\ unit[call.attacker].skill = start[call.attacker].skill
        /\ unit[call.attacker].speed = start[call.attacker].speed

\* a skill left active by a capture strike is still listed when the next
\* encounter starts
C27_LeakStep ==
    (CaptureReturned /\ BeginStep) =>
        \A i \in Units : Len(unit'[i].active_skills) >= Len(unit[i].active_skills)
C27_LeakCarriesOver == [][C27_LeakStep]_vars

\* --------------------------------------------------------- no duplicates
\* no value occurs twice in sequence q
NoRepeat(q) == \A k, l \in 1..Len(q) : q[k] = q[l] => k = l

\* the current call began with nothing left active from an earlier call
CleanStart == \A i \in Units : start[i].active_skills = <<>>

\* the active-skill lists hold each skill once in every stage of an encounter
C28_ActiveOnce ==
    (InCombat /\ CleanStart) => \A i \in Units : NoRepeat(unit[i].active_skills)

\* the activated-skill names of a returned outcome, which are the active-skill
\* lists as they were before the cleanup, hold each name once
C28_SnapshotOnce ==
    (Returned /\ CleanStart) => /\ NoRepeat(results.activated_skills.attacker)
                                /\ NoRepeat(results.activated_skills.defender)

\* a strike by the holder of one on-attack hit boost of +n has the plain
\* formula's hit chance plus n, also when it is a follow-up
C28_CountedOnceStep ==
    (AnyStrikeStep /\ CleanStart) =>
        \A j \in 1..Len(unit[NewStrike.by].skills) :
            LET sk == unit[NewStrike.by].skills[j]
                ua == unit[NewStrike.by]
                ud == unit[NewStrike.target]
            IN (/\ sk.trigger_type = "ON_ATTACK" /\ sk.effect_type = "HIT_BOOST"
                /\ sk.effect_value.kind = "int"
                /\ ~sys.enh /\ ud.active_skills = <<>>
                /\ \A k \in 1..Len(ua.skills) :
                      k # j => ua.skills[k].effect_type # "HIT_BOOST") =>
                   NewStrike.hit_chance =
                       Max(0, Min(100, AccuracyH(ua) + sk.effect_value.n
                                         + 15 * Matchup(Category(ua), Category(ud))
                                         - (2 * ud.speed + ud.luck)
                                         - TerrainDodge(ud.terrain)))

\* C28: within one encounter a skill is at most once in a combatant's
\* active-skill list and at most once in the outcome's activated-skill names
\* of its side, so in any strike, a follow-up after the skill already fired on
\* the first strike included, each skill's modifier is counted at most once.
C28_SkillCountedOnce ==
    [](C28_ActiveOnce /\ C28_SnapshotOnce) /\ [][C28_CountedOnceStep]_vars

\* the first strike of a unit in an encounter counts the boost once
C28_FirstStrikeStep ==
    (AnyStrikeStep /\ \A k \in 1..Len(strikes) : strikes[k].by # NewStrike.by)
        => C28_CountedOnceStep
C28_FirstStrikeOnce == [][C28_FirstStrikeStep]_vars

\* ---------------------------------------------------------- damage reduction
\* unit u with its active damage-reduction skills taken off the active list
WithoutReduction(u) ==
    [u EXCEPT !.active_skills =
        SelectSeq(@, LAMBDA j : u.skills[j].effect_type # "DAMAGE_REDUCE")]

\* the struck unit has a damage-reduction skill active
ReductionActive(u) ==
    \E k \in 1..Len(u.active_skills) : ActiveSkills(u)[k].effect_type = "DAMAGE_REDUCE"

\* C29: an active damage-reduction effect on the struck unit, flat or
\* proportional to attack power minus defense, never makes calculate_damage
\* larger than it is for the same inputs without the effect, also when the
\* attack power is below the defense stat and a boost or matchup bonus is there.
C29_ReductionNeverAdds ==
    \A a \in Units : (pc = "idle" /\ results[a].done) =>
        results[a].damage <= calculate_damage(unit[a], WithoutReduction(unit[Other(a)]))

\* the same where the attack power is at least the defense stat
C29_ReductionWhenPowerCovers ==
    \A a \in Units :
        (/\ pc = "idle" /\ results[a].done
         /\ get_attack_power(unit[a]) >= GuardD(unit[a], unit[Other(a)])) =>
            results[a].damage <= calculate_damage(unit[a], WithoutReduction(unit[Other(a)]))

\* ------------------------------------------------------- defender's range
\* unit i holds a guaranteed-counter effect: on its roster, active, or (enhanced)
\* on its special item
HoldsCounterEffect(i) ==
    \/ HoldsCounter(i)
    \/ \E j \in 1..Len(unit[i].skills) : unit[i].skills[j].effect_type = "COUNTER_ATTACK"

\* a strike of the caller's defender is made in range or under a
\* guaranteed-counter effect (in a call whose attacker is itself in range)
C30_Step ==
    (/\ AnyStrikeStep /\ NewStrike.by = call.defender
     /\ InRange(call.attacker, call.defender)) =>
        InRange(call.defender, call.attacker) \/ HoldsCounterEffect(call.defender)

\* C30: the caller's defender never performs any strike (first strike under
\* swapped initiative, counter, or follow-up) while its weapon's range does not
\* contain the Manhattan distance to the attacker and it holds no
\* guaranteed-counter effect; swapped initiative does not let an out-of-range
\* defender strike.
C30_DefenderStrikesInRange == [][C30_Step]_vars

\* the same without swapped initiative
C30_UnswappedStep == ~swap_roles => C30_Step
C30_UnswappedInRange == [][C30_UnswappedStep]_vars
====
